---- MODULE Spec2Model ----
(***************************************************************************)
(* A model of gomem: the memory map and its lookups, the AOB matcher and   *)
(* the sequential and parallel scanners, the pointer-chain resolver and    *)
(* the lifecycle of the live Linux, Windows and snapshot back ends.        *)
(*                                                                         *)
(* Addresses are uint64 in the source.  The model scales the address       *)
(* space down to 0 .. MaxAddr and keeps the arithmetic modular: AddrMod    *)
(* plays the part of 2^64, AddrLow of 0x10000, AddrHigh of 0x700000000000  *)
(* and ScanUpperLimit of 0x7d0000000000.                                   *)
(*                                                                         *)
(* Each subsystem has its own variables and its own specification; the     *)
(* variables of the other subsystems stay at their idle values.            *)
(***************************************************************************)
EXTENDS Integers, Sequences, FiniteSets, TLC

----------------------------------------------------------------------------
(* Bounds of the model *)

MaxAddr == 15
LkMaxAddr == 9
LkMaxRegions == 4
LkMaxSize == 2
MtMaxData == 3
MtMaxPattern == 2
ChMaxOffsets == 3
ScMaxRegions == 3
ScMaxDop == 3

(* Program constants, scaled to the address space of the model *)

AddrLow == 2
AddrHigh == 12
ScanUpperLimit == 14

AddrMod == MaxAddr + 1
Addrs == 0 .. MaxAddr

U64Add(a, b) == (a + b) % AddrMod

----------------------------------------------------------------------------
(* Memory map: src/process/memory_map *)

PermsR == <<"r", "-", "-", "p">>
PermsRW == <<"r", "w", "-", "p">>
PermsNone == <<"-", "-", "-", "p">>

MemoryMapItem(a, s, p) == [Address |-> a, Size |-> s, Perms |-> p]

ItemEnd(item) == U64Add(item.Address, item.Size)

IsReadablePerms(perms) == Len(perms) > 0 /\ perms[1] = "r"

IsWritablePerms(perms) == Len(perms) > 1 /\ perms[2] = "w"

(* The linear scans return on the first covering item. *)
RECURSIVE LinearFind(_, _, _)
LinearFind(addr, memoryMap, k) ==
    IF k > Len(memoryMap) THEN 0
    ELSE IF addr >= memoryMap[k].Address /\ addr < ItemEnd(memoryMap[k]) THEN k
    ELSE LinearFind(addr, memoryMap, k + 1)

IsValidAddress(addr, memoryMap) == LinearFind(addr, memoryMap, 1) # 0

GetMemoryRegionForAddress(addr, memoryMap) ==
    LET k == LinearFind(addr, memoryMap, 1)
    IN IF k = 0 THEN <<>> ELSE <<memoryMap[k]>>

(* The bisection with the region's end taken as inclusive. *)
RECURSIVE SortSearchInclusiveEnd(_, _, _, _)
SortSearchInclusiveEnd(i, j, addr, memoryMap) ==
    IF i < j
    THEN LET h == (i + j) \div 2
         IN IF ~(ItemEnd(memoryMap[h + 1]) >= addr)
            THEN SortSearchInclusiveEnd(h + 1, j, addr, memoryMap)
            ELSE SortSearchInclusiveEnd(i, h, addr, memoryMap)
    ELSE i

(* sort.Search(n, f): the smallest index in [0, n) at which f is true, by  *)
(* bisection; indices are 0-based as in Go, hence memoryMap[h + 1].        *)
RECURSIVE SortSearch(_, _, _, _)
SortSearch(i, j, addr, memoryMap) ==
    IF i < j
    THEN LET h == (i + j) \div 2
         IN IF ~(ItemEnd(memoryMap[h + 1]) > addr)
            THEN SortSearch(h + 1, j, addr, memoryMap)
            ELSE SortSearch(i, h, addr, memoryMap)
    ELSE i

IsValidAddress2(addr, memoryMap) ==
    LET i == SortSearch(0, Len(memoryMap), addr, memoryMap)
    IN IF i < Len(memoryMap) /\ memoryMap[i + 1].Address <= addr
       THEN <<memoryMap[i + 1]>>
       ELSE <<>>

(* Maps as UpdateMemoryMap and Load leave them: sorted by Address; as the  *)
(* kernel lists them: every region non-empty, none overlapping another,    *)
(* and every end below 2^64.                                               *)
RECURSIVE SortedMaps(_, _, _, _, _)
SortedMaps(lo, hi, n, maxSize, permSet) ==
    IF n = 0 THEN {<<>>}
    ELSE {<<>>} \cup
         UNION {
           { <<MemoryMapItem(t[1], t[2], t[3])>> \o rest :
               rest \in SortedMaps(t[1] + t[2], hi, n - 1, maxSize, permSet) } :
           t \in { u \in (lo .. hi) \X (1 .. maxSize) \X permSet :
                      u[1] + u[2] <= hi } }

(* The same maps with one region emptied: memory_map's lookups take any    *)
(* slice, and a snapshot's process_memory_map.json may list a region of    *)
(* size 0.                                                                 *)
ZeroSizeMaps(maps) ==
    UNION { { [m EXCEPT ![k].Size = 0] : k \in 1 .. Len(m) } : m \in maps }

IsSortedMap(m) ==
    \A i, j \in 1 .. Len(m) : i < j => m[i].Address <= m[j].Address

IsNonOverlapping(m) ==
    \A i, j \in 1 .. Len(m) :
        i < j => (ItemEnd(m[i]) <= m[j].Address \/ ItemEnd(m[j]) <= m[i].Address)

----------------------------------------------------------------------------
(* Live Linux back end, reads: src/process_linux *)

Pids == {101, 102}

isValidAddressInternal(addr, mm) ==
    IF addr <= AddrLow THEN FALSE
    ELSE IF addr > AddrHigh THEN FALSE
    ELSE LET item == IsValidAddress2(addr, mm)
         IN item # <<>> /\ IsReadablePerms(item[1].Perms)

(* ReadMemory run without interruption; ioOk says whether process_vm_readv *)
(* returned all the bytes.                                                 *)
ReadMemoryStatus(pid, addr, mm, ioOk) ==
    IF pid = 0 THEN "ErrProcessNotOpen"
    ELSE IF ~isValidAddressInternal(addr, mm) THEN "ErrAddressNotMapped"
    ELSE IF ~ioOk THEN "ErrReadFailed"
    ELSE "ok"

(* ReadPOINTER2: the pointer stored at addr, zero on any error. *)
ReadPOINTER2(pid, addr, mm, stored, ioOk) ==
    IF ReadMemoryStatus(pid, addr, mm, ioOk) = "ok" THEN stored ELSE 0

(* ReadBlob: the view of size bytes based at addr, or no view on error. *)
ReadBlob(pid, addr, size, mm, ioOk) ==
    IF ReadMemoryStatus(pid, addr, mm, ioOk) = "ok"
    THEN <<[Base |-> addr, Size |-> size]>>
    ELSE <<>>

----------------------------------------------------------------------------
(* AOB matcher: src/process_linux/process_scan.go *)

(* Byte values the model draws data, patterns and masks from: 0 is the     *)
(* wildcard mask, 1 a partial mask, 3 stands for the full mask 0xFF.       *)
Bytes == {0, 1, 3}

(* The & of two bytes. *)
RECURSIVE BitAnd(_, _)
BitAnd(a, b) ==
    IF a = 0 \/ b = 0 THEN 0
    ELSE (a % 2) * (b % 2) + 2 * BitAnd(a \div 2, b \div 2)

(* The inner loop of findPatternMatches at position i (0-based), from      *)
(* pattern index j (1-based): Go's data[i+j] is data[i + j] here.          *)
RECURSIVE PatternMatchesAt(_, _, _, _, _)
PatternMatchesAt(data, pattern, mask, i, j) ==
    IF j > Len(pattern) THEN TRUE
    ELSE IF mask[j] = 0 THEN PatternMatchesAt(data, pattern, mask, i, j + 1)
    ELSE IF BitAnd(data[i + j], mask[j]) # BitAnd(pattern[j], mask[j]) THEN FALSE
    ELSE PatternMatchesAt(data, pattern, mask, i, j + 1)

(* The outer loop with its bound taken as exclusive. *)
RECURSIVE FindLoopExclusive(_, _, _, _, _)
FindLoopExclusive(data, pattern, mask, i, matches) ==
    IF ~(i < Len(data) - Len(pattern)) THEN matches
    ELSE FindLoopExclusive(data, pattern, mask, i + 1,
            IF PatternMatchesAt(data, pattern, mask, i, 1)
            THEN Append(matches, i) ELSE matches)

(* The outer loop: for i := 0; i <= len(data)-len(pattern); i++ *)
RECURSIVE FindLoop(_, _, _, _, _)
FindLoop(data, pattern, mask, i, matches) ==
    IF ~(i <= Len(data) - Len(pattern)) THEN matches
    ELSE FindLoop(data, pattern, mask, i + 1,
            IF PatternMatchesAt(data, pattern, mask, i, 1)
            THEN Append(matches, i) ELSE matches)

findPatternMatches(data, pattern, mask) ==
    IF Len(data) < Len(pattern) THEN <<>>
    ELSE FindLoop(data, pattern, mask, 0, <<>>)

(* The appends made from the last offset to the first. *)
AppendMatchesReversed(results, regionAddr, matches) ==
    results \o [k \in 1 .. Len(matches) |->
                   U64Add(regionAddr, matches[Len(matches) + 1 - k])]

(* Scan and the workers of ScanParallel: every offset becomes the address  *)
(* region.Address + uint64(offset), appended to results in order.          *)
AppendMatches(results, regionAddr, matches) ==
    results \o [k \in 1 .. Len(matches) |-> U64Add(regionAddr, matches[k])]

SeqsUpTo(S, lo, hi) == UNION { [1 .. n -> S] : n \in lo .. hi }

----------------------------------------------------------------------------
VARIABLES
    lkMap,        \* the memory map a lookup is made in
    lkAddr,       \* the address looked up
    lkPc,         \* "ready" | "done"
    lkFound2,     \* what IsValidAddress2 returned
    lkFound,      \* what GetMemoryRegionForAddress returned
    lkValid,      \* what IsValidAddress returned
    mtData,       \* the bytes read from a region
    mtPattern,    \* aob.Pattern
    mtMask,       \* aob.Mask
    mtStart,      \* region.Address
    mtPc,         \* "ready" | "done"
    mtMatches,    \* what findPatternMatches returned
    mtResults,    \* the addresses Scan appended for the region
    chMm,         \* p.mm of the handle the chain is read through
    chBase,       \* base
    chSize,       \* size
    chOffsets,    \* offsets
    chPc,         \* "call" | "loop" | "done"
    chI,          \* the loop index i
    chCurrent,    \* current
    chReads,      \* the reads issued so far, in order
    chErr,        \* "" | "null" | "invalid" | "blob" | "read"
    chErrStep,    \* the step the error names
    chView,       \* the view returned: <<>> or <<[Base, Size]>>
    scMm,         \* p.mm of the scanned handle
    scAob,        \* aob: [Pattern, Mask]
    scMaxdop,     \* maxdop as passed
    scNumCPU,     \* runtime.NumCPU()
    scPc,         \* ScanParallel: "call" | "spawn" | "wait" | "returned"
    scSeq,        \* what Scan returned: [err, results]
    scSeqFirst,   \* what ScanFirst returned: [err, addr]
    scRegions,    \* readableRegions
    scNext,       \* index of the next region to start a worker for
    scSem,        \* number of slots taken in sem
    scSemCap,     \* capacity of sem
    scWg,         \* the WaitGroup counter
    scWorker,     \* per region: the goroutine's [pc, matches]
    scResMu,      \* resultsMutex: 0 or the worker holding it
    scResults,    \* results of ScanParallel
    scParErr,     \* the error ScanParallel returned, "" if none
    scParFirst,   \* what ScanFirstParallel returned: [err, addr]
    wnPid,        \* WindowsProcess.pid
    wnHandle,     \* WindowsProcess.handle: 0 or the process it is a handle of
    wnMm,         \* WindowsProcess.mm
    wnLast,       \* the last call: [op, addr, size, open, result, osRead]
    dpPID,        \* ProcessDump.PID
    dpMemoryMap,  \* ProcessDump.MemoryMap
    dpBlobsNil,   \* ProcessDump.Blobs is the nil map
    dpBlobs,      \* ProcessDump.Blobs: region address -> bytes
    dpPanic,      \* the program panicked
    dpLast,       \* the last call: [op, addr, size, result, data]
    lvPid,        \* LinuxProcess.pid
    lvMm,         \* LinuxProcess.mm
    lvMu,         \* LinuxProcess.mu: 0 or the thread that holds it
    lvPc,         \* per thread: where it is in the call it is making
    lvLoc,        \* per thread: the locals of the call it is making
    lvClosed,     \* history: a Close has returned and no Open has returned nil since
    lvLast,       \* the last return: [thread, op, result, afterClose]
    svPid,        \* LinuxProcess.pid of the handle that is saved
    svPc,         \* where Save is: idle, check, read, write, returned
    svMap,        \* mmCopy, the map Save works through
    svI,          \* index in mmCopy of the region in hand
    svStats,      \* regionTypeStats
    svData,       \* the bytes ReadMemory returned for the region in hand
    svDir,        \* the directory: metadata.json, process_memory_map.json, blob files
    svTimeout,    \* timeoutChan holds a value
    svOutcome,    \* history: which count each region of mmCopy went to
    svResult,     \* what the last Save returned
    svDump,       \* the ProcessDump loaded from the directory
    svLast,       \* the last read on the dump, with what the live handle returned for it
    wrPid,        \* LinuxProcess.pid of the handle written through
    wrMm,         \* LinuxProcess.mm of that handle
    wrPc,         \* where WriteMemory is: idle, syscall, panic
    wrLoc,        \* locals of the WriteMemory in progress: pid, addr, data, dataCopy
    wrLast,       \* the last WriteMemory return, with the handle as it was under the lock
    pdIn,         \* the record type, its tags and the foreign memory of one materialisation
    pdLast,       \* the last call: [op, err, prior, val]
    vwBase,       \* ProcessBlob.baseaddress of the offset view
    vwData,       \* ProcessBlob.data of the offset view
    vwLast,       \* the last read through the view: arguments, status, bytes returned
    srCfg,        \* Searcher and the root: MaxStructSize, MaxDepth, MinAlignment, SearchFor set or nil, base
    srMem,        \* bytes of the one mapped region of the searched process
    srPc,         \* where Search is: start, run, done
    srStack,      \* activations of searchRecursive, innermost last: addr, depth, path, pc, offset, pass
    srVisited,    \* visited
    srResults,    \* results (paths)
    srReadDepths, \* depths at which proc.ReadMemory has been called
    srErr,        \* error returned by Search
    mxOwner,      \* the goroutine holding LinuxProcess.mu, 0 when it is free
    mxOp,         \* the call each goroutine is in, "" when in none
    mxCont,       \* what each goroutine's call has still to do: Lock, Unlock and I/O steps
    rsMem,        \* the pointer-sized words of the region the resolvers read, one per address
    rsBase,       \* the base argument
    rsSize,       \* the size of the final read
    rsOffsets,    \* the offsets argument
    rsLinux,      \* the walk of LinuxProcess.ReadPointerChain, empty until it has run
    rsBlob,       \* the walk of ProcessBlob.ReadPointerChain, empty until it has run
    rsPath,       \* the walk of process.ReadPath, empty until it has run
    rbVariant,    \* which ReadBlobs implementation is running
    rbList,       \* the list argument
    rbSize,       \* the size argument
    rbPc,         \* the position of the calling goroutine
    rbI,          \* the index the caller's loop has completed
    rbResults,    \* the results slice
    rbWrites,     \* for every slot of results, the records assigned to it so far
    rbGroups,     \* the groups map of the grouped variant, keyed by region start
    rbPending,    \* the keys whose goroutine is not yet started
    rbWorkers,    \* the goroutines started, by key
    rbSem,        \* the number of slots taken in the semaphore channel
    ndMem,        \* the Next pointer the target holds in each Node record
    ndRoot,       \* the address ReadStruct is called with
    ndTag,        \* the pod tag of the Next field
    ndPc,         \* the position of the outermost ReadStruct call
    ndStack,      \* the addresses of the ReadStruct calls in progress, outermost first
    ndRet,        \* the result the innermost finished call hands its caller, "" when none
    ndCalls       \* the number of ReadStruct calls made

lkVars == <<lkMap, lkAddr, lkPc, lkFound2, lkFound, lkValid>>
mtVars == <<mtData, mtPattern, mtMask, mtStart, mtPc, mtMatches, mtResults>>
chVars == <<chMm, chBase, chSize, chOffsets, chPc, chI, chCurrent, chReads,
    chErr, chErrStep, chView>>
scVars == <<scMm, scAob, scMaxdop, scNumCPU, scPc, scSeq, scSeqFirst,
    scRegions, scNext, scSem, scSemCap, scWg, scWorker, scResMu, scResults,
    scParErr, scParFirst>>
wnVars == <<wnPid, wnHandle, wnMm, wnLast>>
dpVars == <<dpPID, dpMemoryMap, dpBlobsNil, dpBlobs, dpPanic, dpLast>>
lvVars == <<lvPid, lvMm, lvMu, lvPc, lvLoc, lvClosed, lvLast>>
svVars == <<svPid, svPc, svMap, svI, svStats, svData, svDir, svTimeout,
    svOutcome, svResult, svDump, svLast>>
wrVars == <<wrPid, wrMm, wrPc, wrLoc, wrLast>>
pdVars == <<pdIn, pdLast>>
vwVars == <<vwBase, vwData, vwLast>>
srVars == <<srCfg, srMem, srPc, srStack, srVisited, srResults, srReadDepths,
    srErr>>
mxVars == <<mxOwner, mxOp, mxCont>>
rsVars == <<rsMem, rsBase, rsSize, rsOffsets, rsLinux, rsBlob, rsPath>>
rbVars == <<rbVariant, rbList, rbSize, rbPc, rbI, rbResults, rbWrites,
    rbGroups, rbPending, rbWorkers, rbSem>>
ndVars == <<ndMem, ndRoot, ndTag, ndPc, ndStack, ndRet, ndCalls>>

vars == <<lkVars, mtVars, chVars, scVars, wnVars, dpVars, lvVars, svVars,
    wrVars, pdVars, vwVars, srVars, mxVars, rsVars, rbVars, ndVars>>

(* What each specification leaves alone. *)
notLkVars == <<mtVars, chVars, scVars, wnVars, dpVars, lvVars, svVars,
    wrVars, pdVars, vwVars, srVars, mxVars, rsVars, rbVars, ndVars>>
notMtVars == <<lkVars, chVars, scVars, wnVars, dpVars, lvVars, svVars,
    wrVars, pdVars, vwVars, srVars, mxVars, rsVars, rbVars, ndVars>>
notChVars == <<lkVars, mtVars, scVars, wnVars, dpVars, lvVars, svVars,
    wrVars, pdVars, vwVars, srVars, mxVars, rsVars, rbVars, ndVars>>
notScVars == <<lkVars, mtVars, chVars, wnVars, dpVars, lvVars, svVars,
    wrVars, pdVars, vwVars, srVars, mxVars, rsVars, rbVars, ndVars>>
notWnVars == <<lkVars, mtVars, chVars, scVars, dpVars, lvVars, svVars,
    wrVars, pdVars, vwVars, srVars, mxVars, rsVars, rbVars, ndVars>>
notDpVars == <<lkVars, mtVars, chVars, scVars, wnVars, lvVars, svVars,
    wrVars, pdVars, vwVars, srVars, mxVars, rsVars, rbVars, ndVars>>
notLvVars == <<lkVars, mtVars, chVars, scVars, wnVars, dpVars, svVars,
    wrVars, pdVars, vwVars, srVars, mxVars, rsVars, rbVars, ndVars>>
notSvVars == <<lkVars, mtVars, chVars, scVars, wnVars, dpVars, lvVars,
    wrVars, pdVars, vwVars, srVars, mxVars, rsVars, rbVars, ndVars>>
notWrVars == <<lkVars, mtVars, chVars, scVars, wnVars, dpVars, lvVars,
    svVars, pdVars, vwVars, srVars, mxVars, rsVars, rbVars, ndVars>>
notPdVars == <<lkVars, mtVars, chVars, scVars, wnVars, dpVars, lvVars,
    svVars, wrVars, vwVars, srVars, mxVars, rsVars, rbVars, ndVars>>
notVwVars == <<lkVars, mtVars, chVars, scVars, wnVars, dpVars, lvVars,
    svVars, wrVars, pdVars, srVars, mxVars, rsVars, rbVars, ndVars>>
notSrVars == <<lkVars, mtVars, chVars, scVars, wnVars, dpVars, lvVars,
    svVars, wrVars, pdVars, vwVars, mxVars, rsVars, rbVars, ndVars>>
notMxVars == <<lkVars, mtVars, chVars, scVars, wnVars, dpVars, lvVars,
    svVars, wrVars, pdVars, vwVars, srVars, rsVars, rbVars, ndVars>>
notRsVars == <<lkVars, mtVars, chVars, scVars, wnVars, dpVars, lvVars,
    svVars, wrVars, pdVars, vwVars, srVars, mxVars, rbVars, ndVars>>
notRbVars == <<lkVars, mtVars, chVars, scVars, wnVars, dpVars, lvVars,
    svVars, wrVars, pdVars, vwVars, srVars, mxVars, rsVars, ndVars>>
notNdVars == <<lkVars, mtVars, chVars, scVars, wnVars, dpVars, lvVars,
    svVars, wrVars, pdVars, vwVars, srVars, mxVars, rsVars, rbVars>>

(* The values of a subsystem's variables while another one runs. *)
LkIdle ==
    /\ lkMap = <<>>
    /\ lkAddr = 0
    /\ lkPc = "idle"
    /\ lkFound2 = <<>>
    /\ lkFound = <<>>
    /\ lkValid = FALSE

MtIdle ==
    /\ mtData = <<>>
    /\ mtPattern = <<>>
    /\ mtMask = <<>>
    /\ mtStart = 0
    /\ mtPc = "idle"
    /\ mtMatches = <<>>
    /\ mtResults = <<>>

ChIdle ==
    /\ chMm = <<>>
    /\ chBase = 0
    /\ chSize = 0
    /\ chOffsets = <<>>
    /\ chPc = "idle"
    /\ chI = 0
    /\ chCurrent = 0
    /\ chReads = <<>>
    /\ chErr = ""
    /\ chErrStep = 0
    /\ chView = <<>>

ScIdle ==
    /\ scMm = <<>>
    /\ scAob = <<>>
    /\ scMaxdop = 0
    /\ scNumCPU = 0
    /\ scPc = "idle"
    /\ scSeq = <<>>
    /\ scSeqFirst = <<>>
    /\ scRegions = <<>>
    /\ scNext = 0
    /\ scSem = 0
    /\ scSemCap = 0
    /\ scWg = 0
    /\ scWorker = <<>>
    /\ scResMu = 0
    /\ scResults = <<>>
    /\ scParErr = ""
    /\ scParFirst = <<>>

WnIdle ==
    /\ wnPid = 0
    /\ wnHandle = 0
    /\ wnMm = <<>>
    /\ wnLast = <<>>

DpIdle ==
    /\ dpPID = 0
    /\ dpMemoryMap = <<>>
    /\ dpBlobsNil = FALSE
    /\ dpBlobs = <<>>
    /\ dpPanic = FALSE
    /\ dpLast = <<>>

LvIdle ==
    /\ lvPid = 0
    /\ lvMm = <<>>
    /\ lvMu = 0
    /\ lvPc = <<>>
    /\ lvLoc = <<>>
    /\ lvClosed = FALSE
    /\ lvLast = <<>>

SvIdle ==
    /\ svPid = 0
    /\ svPc = ""
    /\ svMap = <<>>
    /\ svI = 0
    /\ svStats = <<>>
    /\ svData = <<>>
    /\ svDir = <<>>
    /\ svTimeout = FALSE
    /\ svOutcome = <<>>
    /\ svResult = ""
    /\ svDump = <<>>
    /\ svLast = <<>>

WrIdle ==
    /\ wrPid = 0
    /\ wrMm = <<>>
    /\ wrPc = ""
    /\ wrLoc = <<>>
    /\ wrLast = <<>>

PdIdle ==
    /\ pdIn = <<>>
    /\ pdLast = <<>>

VwIdle ==
    /\ vwBase = 0
    /\ vwData = <<>>
    /\ vwLast = <<>>

SrIdle ==
    /\ srCfg = <<>>
    /\ srMem = <<>>
    /\ srPc = ""
    /\ srStack = <<>>
    /\ srVisited = {}
    /\ srResults = <<>>
    /\ srReadDepths = {}
    /\ srErr = ""

MxIdle ==
    /\ mxOwner = 0
    /\ mxOp = <<>>
    /\ mxCont = <<>>

RsIdle ==
    /\ rsMem = <<>>
    /\ rsBase = 0
    /\ rsSize = 0
    /\ rsOffsets = <<>>
    /\ rsLinux = <<>>
    /\ rsBlob = <<>>
    /\ rsPath = <<>>

RbIdle ==
    /\ rbVariant = ""
    /\ rbList = <<>>
    /\ rbSize = 0
    /\ rbPc = "idle"
    /\ rbI = 0
    /\ rbResults = <<>>
    /\ rbWrites = <<>>
    /\ rbGroups = <<>>
    /\ rbPending = {}
    /\ rbWorkers = <<>>
    /\ rbSem = 0

NdIdle ==
    /\ ndMem = <<>>
    /\ ndRoot = 0
    /\ ndTag = <<>>
    /\ ndPc = "idle"
    /\ ndStack = <<>>
    /\ ndRet = ""
    /\ ndCalls = 0

NotLkIdle ==
    /\ MtIdle
    /\ ChIdle
    /\ ScIdle
    /\ WnIdle
    /\ DpIdle
    /\ LvIdle
    /\ SvIdle
    /\ WrIdle
    /\ PdIdle
    /\ VwIdle
    /\ SrIdle
    /\ MxIdle
    /\ RsIdle
    /\ RbIdle
    /\ NdIdle

NotMtIdle ==
    /\ LkIdle
    /\ ChIdle
    /\ ScIdle
    /\ WnIdle
    /\ DpIdle
    /\ LvIdle
    /\ SvIdle
    /\ WrIdle
    /\ PdIdle
    /\ VwIdle
    /\ SrIdle
    /\ MxIdle
    /\ RsIdle
    /\ RbIdle
    /\ NdIdle

NotChIdle ==
    /\ LkIdle
    /\ MtIdle
    /\ ScIdle
    /\ WnIdle
    /\ DpIdle
    /\ LvIdle
    /\ SvIdle
    /\ WrIdle
    /\ PdIdle
    /\ VwIdle
    /\ SrIdle
    /\ MxIdle
    /\ RsIdle
    /\ RbIdle
    /\ NdIdle

NotScIdle ==
    /\ LkIdle
    /\ MtIdle
    /\ ChIdle
    /\ WnIdle
    /\ DpIdle
    /\ LvIdle
    /\ SvIdle
    /\ WrIdle
    /\ PdIdle
    /\ VwIdle
    /\ SrIdle
    /\ MxIdle
    /\ RsIdle
    /\ RbIdle
    /\ NdIdle

NotWnIdle ==
    /\ LkIdle
    /\ MtIdle
    /\ ChIdle
    /\ ScIdle
    /\ DpIdle
    /\ LvIdle
    /\ SvIdle
    /\ WrIdle
    /\ PdIdle
    /\ VwIdle
    /\ SrIdle
    /\ MxIdle
    /\ RsIdle
    /\ RbIdle
    /\ NdIdle

NotDpIdle ==
    /\ LkIdle
    /\ MtIdle
    /\ ChIdle
    /\ ScIdle
    /\ WnIdle
    /\ LvIdle
    /\ SvIdle
    /\ WrIdle
    /\ PdIdle
    /\ VwIdle
    /\ SrIdle
    /\ MxIdle
    /\ RsIdle
    /\ RbIdle
    /\ NdIdle

NotLvIdle ==
    /\ LkIdle
    /\ MtIdle
    /\ ChIdle
    /\ ScIdle
    /\ WnIdle
    /\ DpIdle
    /\ SvIdle
    /\ WrIdle
    /\ PdIdle
    /\ VwIdle
    /\ SrIdle
    /\ MxIdle
    /\ RsIdle
    /\ RbIdle
    /\ NdIdle

NotSvIdle ==
    /\ LkIdle
    /\ MtIdle
    /\ ChIdle
    /\ ScIdle
    /\ WnIdle
    /\ DpIdle
    /\ LvIdle
    /\ WrIdle
    /\ PdIdle
    /\ VwIdle
    /\ SrIdle
    /\ MxIdle
    /\ RsIdle
    /\ RbIdle
    /\ NdIdle

NotWrIdle ==
    /\ LkIdle
    /\ MtIdle
    /\ ChIdle
    /\ ScIdle
    /\ WnIdle
    /\ DpIdle
    /\ LvIdle
    /\ SvIdle
    /\ PdIdle
    /\ VwIdle
    /\ SrIdle
    /\ MxIdle
    /\ RsIdle
    /\ RbIdle
    /\ NdIdle

NotPdIdle ==
    /\ LkIdle
    /\ MtIdle
    /\ ChIdle
    /\ ScIdle
    /\ WnIdle
    /\ DpIdle
    /\ LvIdle
    /\ SvIdle
    /\ WrIdle
    /\ VwIdle
    /\ SrIdle
    /\ MxIdle
    /\ RsIdle
    /\ RbIdle
    /\ NdIdle

NotVwIdle ==
    /\ LkIdle
    /\ MtIdle
    /\ ChIdle
    /\ ScIdle
    /\ WnIdle
    /\ DpIdle
    /\ LvIdle
    /\ SvIdle
    /\ WrIdle
    /\ PdIdle
    /\ SrIdle
    /\ MxIdle
    /\ RsIdle
    /\ RbIdle
    /\ NdIdle

NotSrIdle ==
    /\ LkIdle
    /\ MtIdle
    /\ ChIdle
    /\ ScIdle
    /\ WnIdle
    /\ DpIdle
    /\ LvIdle
    /\ SvIdle
    /\ WrIdle
    /\ PdIdle
    /\ VwIdle
    /\ MxIdle
    /\ RsIdle
    /\ RbIdle
    /\ NdIdle

NotMxIdle ==
    /\ LkIdle
    /\ MtIdle
    /\ ChIdle
    /\ ScIdle
    /\ WnIdle
    /\ DpIdle
    /\ LvIdle
    /\ SvIdle
    /\ WrIdle
    /\ PdIdle
    /\ VwIdle
    /\ SrIdle
    /\ RsIdle
    /\ RbIdle
    /\ NdIdle

NotRsIdle ==
    /\ LkIdle
    /\ MtIdle
    /\ ChIdle
    /\ ScIdle
    /\ WnIdle
    /\ DpIdle
    /\ LvIdle
    /\ SvIdle
    /\ WrIdle
    /\ PdIdle
    /\ VwIdle
    /\ SrIdle
    /\ MxIdle
    /\ RbIdle
    /\ NdIdle

NotRbIdle ==
    /\ LkIdle
    /\ MtIdle
    /\ ChIdle
    /\ ScIdle
    /\ WnIdle
    /\ DpIdle
    /\ LvIdle
    /\ SvIdle
    /\ WrIdle
    /\ PdIdle
    /\ VwIdle
    /\ SrIdle
    /\ MxIdle
    /\ RsIdle
    /\ NdIdle

NotNdIdle ==
    /\ LkIdle
    /\ MtIdle
    /\ ChIdle
    /\ ScIdle
    /\ WnIdle
    /\ DpIdle
    /\ LvIdle
    /\ SvIdle
    /\ WrIdle
    /\ PdIdle
    /\ VwIdle
    /\ SrIdle
    /\ MxIdle
    /\ RsIdle
    /\ RbIdle

----------------------------------------------------------------------------
(* Lookups in a memory map *)

InitLookup ==
    /\ LET maps == SortedMaps(0, LkMaxAddr, LkMaxRegions, LkMaxSize, {PermsR})
       IN  lkMap \in maps \cup ZeroSizeMaps(maps)
    /\ lkAddr = 0
    /\ lkPc = "ready"
    /\ lkFound2 = <<>>
    /\ lkFound = <<>>
    /\ lkValid = FALSE
    /\ NotLkIdle

Lookup ==
    /\ lkPc = "ready"
    /\ \E addr \in 0 .. LkMaxAddr :
        /\ lkAddr' = addr
        /\ lkFound2' = IsValidAddress2(addr, lkMap)
        /\ lkFound' = GetMemoryRegionForAddress(addr, lkMap)
        /\ lkValid' = IsValidAddress(addr, lkMap)
    /\ lkPc' = "done"
    /\ UNCHANGED <<lkMap, notLkVars>>

NextLookup == Lookup

SpecLookup == InitLookup /\ [][NextLookup]_vars

----------------------------------------------------------------------------
(* C7: in a map sorted by start whose regions do not overlap, the binary   *)
(* search returns a region exactly when the linear scans find one, it is   *)
(* the same region and it contains the address; an address in no region    *)
(* yields nil.                                                             *)
Covers(item, addr) == item.Address <= addr /\ addr < item.Address + item.Size

C7_BinaryAgreesWithLinear ==
    lkPc = "done" =>
        /\ IsSortedMap(lkMap) /\ IsNonOverlapping(lkMap)
        /\ lkFound2 = lkFound
        /\ lkValid = (lkFound2 # <<>>)
        /\ (lkFound2 # <<>>) = (\E k \in 1 .. Len(lkMap) : Covers(lkMap[k], lkAddr))
        /\ lkFound2 # <<>> => Covers(lkFound2[1], lkAddr)

C7_Witness ==
    /\ lkPc = "done"
    /\ Len(lkMap) = LkMaxRegions
    /\ lkFound2 = <<lkMap[LkMaxRegions]>>
    /\ lkAddr > lkMap[1].Address + lkMap[1].Size

(* C23: for a sorted map that contains a region of size 0 starting at S,   *)
(* the contains lookup returns that region for addr = S and for no other   *)
(* address.                                                                *)
C23_ZeroSizeAtStart ==
    lkPc = "done" =>
        \A k \in 1 .. Len(lkMap) :
            lkMap[k].Size = 0 =>
                ((lkFound2 = <<lkMap[k]>>) <=> (lkAddr = lkMap[k].Address))

----------------------------------------------------------------------------
(* The matcher on one region's bytes *)

InitMatch ==
    /\ mtData \in SeqsUpTo(Bytes, 0, MtMaxData)
    /\ \E n \in 1 .. MtMaxPattern :
        /\ mtPattern \in [1 .. n -> Bytes]
        /\ mtMask \in [1 .. n -> Bytes]
    /\ mtStart \in {AddrLow + 1, AddrHigh - MtMaxData}
    /\ mtPc = "ready"
    /\ mtMatches = <<>>
    /\ mtResults = <<>>
    /\ NotMtIdle

(* One iteration of Scan's region loop after the read: lines 65-71. *)
MatchRegion ==
    /\ mtPc = "ready"
    /\ mtMatches' = findPatternMatches(mtData, mtPattern, mtMask)
    /\ mtResults' = AppendMatches(<<>>, mtStart, mtMatches')
    /\ mtPc' = "done"
    /\ UNCHANGED <<mtData, mtPattern, mtMask, mtStart, notMtVars>>

NextMatch == MatchRegion

SpecMatch == InitMatch /\ [][NextMatch]_vars

----------------------------------------------------------------------------
(* C4: the matcher returns exactly the offsets i in 0 .. len(data) -       *)
(* len(pattern) at which every pattern byte agrees with the data on the    *)
(* bits its mask byte sets, each once and in ascending order; an           *)
(* all-wildcard mask matches at every one of the len(data) - len(pattern)  *)
(* + 1 positions, nothing is reported when the data is shorter than the    *)
(* pattern, and Scan reports the match at offset i as region.start + i.    *)
BitsOf(x) == { k \in 0 .. 7 : (x \div (2 ^ k)) % 2 = 1 }

MaskedEqual(d, p, m) == BitsOf(d) \cap BitsOf(m) = BitsOf(p) \cap BitsOf(m)

ExpectedOffsets(data, pattern, mask) ==
    { i \in 0 .. Len(data) - Len(pattern) :
        \A j \in 1 .. Len(pattern) : MaskedEqual(data[i + j], pattern[j], mask[j]) }

C4_MatcherExact ==
    mtPc = "done" =>
        LET expected == ExpectedOffsets(mtData, mtPattern, mtMask)
        IN /\ { mtMatches[k] : k \in 1 .. Len(mtMatches) } = expected
           /\ \A k \in 1 .. Len(mtMatches) - 1 : mtMatches[k] < mtMatches[k + 1]
           /\ ((\A j \in 1 .. Len(mtMask) : mtMask[j] = 0) /\ Len(mtData) >= Len(mtPattern))
                => Len(mtMatches) = Len(mtData) - Len(mtPattern) + 1
           /\ Len(mtData) < Len(mtPattern) => mtMatches = <<>>
           /\ Len(mtResults) = Len(mtMatches)
           /\ \A k \in 1 .. Len(mtMatches) : mtResults[k] = mtStart + mtMatches[k]

(* Two overlapping matches, the second at the last position, with a        *)
(* wildcard in the mask.                                                   *)
C4_Witness ==
    /\ mtPc = "done"
    /\ Len(mtPattern) = 2
    /\ mtMask[1] = 0 /\ mtMask[2] # 0
    /\ Len(mtData) = MtMaxData
    /\ Len(mtMatches) >= 2
    /\ mtMatches[Len(mtMatches)] = Len(mtData) - 2
    /\ mtMatches[Len(mtMatches) - 1] = Len(mtData) - 3

----------------------------------------------------------------------------
(* Pointer-chain resolver: LinuxProcess.ReadPointerChain *)

(* A map with a readable region across the low guard, a region that is not *)
(* readable, and a readable region across the high guard.                  *)
ChainMap ==
    << MemoryMapItem(AddrLow - 1, 4, PermsR),
       MemoryMapItem(AddrLow + 4, 2, PermsNone),
       MemoryMapItem(AddrHigh - 2, 4, PermsRW) >>

ChainMaps == {ChainMap, SubSeq(ChainMap, 1, 1)}

(* Null, guarded, valid, unreadable and unmapped pointer values. *)
ChPtrVals ==
    {0, AddrLow, AddrLow + 1, AddrLow + 4, AddrLow + 6, AddrHigh, AddrHigh + 1}

(* Offsets, the last one a negative displacement in two's complement. *)
ChOffsetVals == {0, 1, AddrMod - 1}

ChainPid == CHOOSE p \in Pids : TRUE

(* The loop that also dereferences the last offset. *)
ChainLoopThroughLast(i, offsets) == i < Len(offsets)

(* for i := 0; i < len(offsets)-1; i++ *)
ChainLoopContinues(i, offsets) == i < Len(offsets) - 1

(* The hop that checks for null only. *)
ChainHopErrorNullOnly(ptr, mm) == IF ptr = 0 THEN "null" ELSE ""

(* The two checks on the pointer a hop read. *)
ChainHopError(ptr, mm) ==
    IF ptr = 0 THEN "null"
    ELSE IF ~isValidAddressInternal(ptr, mm) THEN "invalid"
    ELSE ""

InitChain ==
    /\ chMm \in ChainMaps
    /\ chBase \in ChPtrVals
    /\ chSize \in {1, 8}
    /\ chOffsets \in SeqsUpTo(ChOffsetVals, 0, ChMaxOffsets)
    /\ chPc = "call"
    /\ chI = 0
    /\ chCurrent = 0
    /\ chReads = <<>>
    /\ chErr = ""
    /\ chErrStep = 0
    /\ chView = <<>>
    /\ NotChIdle

(* Lines 27-32: no offsets reads the blob at base; otherwise enter the loop. *)
ChainEnter ==
    /\ chPc = "call"
    /\ IF Len(chOffsets) = 0
       THEN \E ioOk \in BOOLEAN :
              /\ chView' = ReadBlob(ChainPid, chBase, chSize, chMm, ioOk)
              /\ chReads' = Append(chReads, [op |-> "blob", addr |-> chBase, val |-> 0])
              /\ chErr' = IF chView' = <<>> THEN "read" ELSE ""
              /\ chPc' = "done"
              /\ UNCHANGED <<chCurrent, chI>>
       ELSE /\ chCurrent' = chBase
            /\ chI' = 0
            /\ chPc' = "loop"
            /\ UNCHANGED <<chView, chReads, chErr>>
    /\ UNCHANGED <<chMm, chBase, chSize, chOffsets, chErrStep, notChVars>>

(* Lines 35-47: one iteration of the dereference loop. *)
ChainHop ==
    /\ chPc = "loop"
    /\ ChainLoopContinues(chI, chOffsets)
    /\ LET off == chOffsets[chI + 1]
           addr == U64Add(chCurrent, off)
       IN \E stored \in ChPtrVals, ioOk \in BOOLEAN :
            LET ptr == ReadPOINTER2(ChainPid, addr, chMm, stored, ioOk)
                err == ChainHopError(ptr, chMm)
            IN /\ chReads' = Append(chReads, [op |-> "ptr", addr |-> addr, val |-> ptr])
               /\ IF err # ""
                  THEN /\ chErr' = err
                       /\ chErrStep' = chI
                       /\ chPc' = "done"
                       /\ UNCHANGED <<chCurrent, chI>>
                  ELSE /\ chCurrent' = ptr
                       /\ chI' = chI + 1
                       /\ UNCHANGED <<chErr, chErrStep, chPc>>
    /\ UNCHANGED <<chMm, chBase, chSize, chOffsets, chView, notChVars>>

(* Lines 49-57: the last offset is added to current and the blob read there. *)
ChainFinal ==
    /\ chPc = "loop"
    /\ ~ChainLoopContinues(chI, chOffsets)
    /\ LET finalOff == chOffsets[Len(chOffsets)]
           start == U64Add(chCurrent, finalOff)
       IN \E ioOk \in BOOLEAN :
            /\ chView' = ReadBlob(ChainPid, start, chSize, chMm, ioOk)
            /\ chReads' = Append(chReads, [op |-> "blob", addr |-> start, val |-> 0])
            /\ chErr' = IF chView' = <<>> THEN "blob" ELSE ""
    /\ chPc' = "done"
    /\ UNCHANGED <<chMm, chBase, chSize, chOffsets, chI, chCurrent, chErrStep, notChVars>>

NextChain == ChainEnter \/ ChainHop \/ ChainFinal

SpecChain == InitChain /\ [][NextChain]_vars

----------------------------------------------------------------------------
(* C2: a view returned for no offsets is based at base; a view returned    *)
(* for k >= 1 offsets was reached by exactly k-1 pointer reads, hop i at   *)
(* current + offsets[i] with current starting at base and becoming the     *)
(* pointer read, followed by one blob read of size bytes at current +      *)
(* offsets[k-1], which is the base of the view (sums taken in uint64).     *)
ChainCurrentAt(n) == IF n = 1 THEN chBase ELSE chReads[n - 1].val

C2_ChainResolves ==
    (chPc = "done" /\ chView # <<>>) =>
        LET k == Len(chOffsets)
        IN /\ chView[1].Size = chSize
           /\ k = 0 =>
                /\ chView[1].Base = chBase
                /\ chReads = <<[op |-> "blob", addr |-> chBase, val |-> 0]>>
           /\ k >= 1 =>
                /\ Len(chReads) = k
                /\ \A n \in 1 .. k - 1 :
                     /\ chReads[n].op = "ptr"
                     /\ chReads[n].addr = (ChainCurrentAt(n) + chOffsets[n]) % AddrMod
                /\ chReads[k].op = "blob"
                /\ chReads[k].addr = (ChainCurrentAt(k) + chOffsets[k]) % AddrMod
                /\ chView[1].Base = chReads[k].addr

C2_Witness ==
    /\ chPc = "done"
    /\ chView # <<>>
    /\ Len(chOffsets) = ChMaxOffsets
    /\ chOffsets[ChMaxOffsets] # 0
    /\ chReads[1].val # chBase

(* C3: a hop that reads a zero pointer ends the call with the null error   *)
(* naming that hop, and a hop that reads a non-zero pointer that is not    *)
(* valid per the map (no readable region covers it, or it lies in a guard  *)
(* window) ends it with the invalid error naming that hop; in both cases   *)
(* that read is the last read of the call and no view is returned.         *)
ValidPerMap(a, mm) ==
    /\ a > AddrLow
    /\ a <= AddrHigh
    /\ \E k \in 1 .. Len(mm) : Covers(mm[k], a) /\ mm[k].Perms[1] = "r"

C3_ChainStopsAtBadHop ==
    \A n \in 1 .. Len(chReads) :
        chReads[n].op = "ptr" =>
            /\ chReads[n].val = 0 =>
                 /\ chPc = "done" /\ chErr = "null" /\ chErrStep = n - 1
                 /\ Len(chReads) = n /\ chView = <<>>
            /\ (chReads[n].val # 0 /\ ~ValidPerMap(chReads[n].val, chMm)) =>
                 /\ chPc = "done" /\ chErr = "invalid" /\ chErrStep = n - 1
                 /\ Len(chReads) = n /\ chView = <<>>

C3_WitnessNull ==
    /\ chPc = "done" /\ chErr = "null" /\ chErrStep = 1
    /\ Len(chOffsets) = ChMaxOffsets

C3_WitnessInvalid ==
    /\ chPc = "done" /\ chErr = "invalid" /\ chErrStep = 1
    /\ Len(chOffsets) = ChMaxOffsets
    /\ chReads[2].val > AddrHigh

----------------------------------------------------------------------------
(* Scanner: src/process_linux/process_scan.go *)

(* Regions a map of the scanned process is made of: at the low guard,      *)
(* readable, not readable, readable, readable but failing to read, above   *)
(* the high guard, above the upper limit of ScanParallel.                  *)
ScanCandidates ==
    << MemoryMapItem(AddrLow - 1, 1, PermsR),
       MemoryMapItem(AddrLow + 1, 2, PermsR),
       MemoryMapItem(AddrLow + 3, 2, PermsNone),
       MemoryMapItem(AddrLow + 5, 3, PermsRW),
       MemoryMapItem(AddrHigh - 2, 2, PermsR),
       MemoryMapItem(AddrHigh + 1, 1, PermsR),
       MemoryMapItem(ScanUpperLimit + 1, 1, PermsR) >>

(* The sorted maps of at most n of these regions. *)
RECURSIVE SubMaps(_, _)
SubMaps(from, n) ==
    IF n = 0 \/ from > Len(ScanCandidates) THEN {<<>>}
    ELSE SubMaps(from + 1, n) \cup
         { <<ScanCandidates[from]>> \o rest : rest \in SubMaps(from + 1, n - 1) }

(* The target's memory, unchanged during the scans; process_vm_readv fails *)
(* on the region at AddrHigh - 2.                                          *)
ScanMem(a) == IF a = AddrLow + 5 THEN 3 ELSE 1

ScanReadOk(addr) == addr # AddrHigh - 2

ScanPid == CHOOSE p \in Pids : TRUE

ScanAobs ==
    { [Pattern |-> <<1>>, Mask |-> <<>>],
      [Pattern |-> <<3, 1>>, Mask |-> <<3, 0>>],
      [Pattern |-> <<1, 1>>, Mask |-> <<0, 0>>],
      [Pattern |-> <<1, 1, 1, 1>>, Mask |-> <<>>],
      [Pattern |-> <<>>, Mask |-> <<>>],
      [Pattern |-> <<1>>, Mask |-> <<3, 3>>] }

(* Lines 26-37 and 92-103: the checks on the AOB; an empty mask becomes    *)
(* all 0xFF.                                                               *)
AobError(aob) ==
    IF Len(aob.Pattern) = 0 THEN "empty pattern"
    ELSE IF Len(aob.Mask) # 0 /\ Len(aob.Mask) # Len(aob.Pattern) THEN "mask length"
    ELSE ""

AobMask(aob) ==
    IF Len(aob.Mask) = 0 THEN [j \in 1 .. Len(aob.Pattern) |-> 255] ELSE aob.Mask

(* p.ReadMemory(region.Address, region.Size): the bytes, or no bytes on    *)
(* any error.                                                              *)
ReadRegion(addr, size, mm) ==
    IF ReadMemoryStatus(ScanPid, addr, mm, ScanReadOk(addr)) = "ok"
    THEN <<[k \in 1 .. size |-> ScanMem(addr + k - 1)]>>
    ELSE <<>>

(* Lines 44-72: Scan's loop over the regions of the map. *)
RECURSIVE ScanLoop(_, _, _, _)
ScanLoop(memMap, k, aob, results) ==
    IF k > Len(memMap) THEN results
    ELSE LET region == memMap[k]
             data == ReadRegion(region.Address, region.Size, memMap)
         IN IF ~IsReadablePerms(region.Perms) \/ data = <<>>
            THEN ScanLoop(memMap, k + 1, aob, results)
            ELSE ScanLoop(memMap, k + 1, aob,
                    AppendMatches(results, region.Address,
                        findPatternMatches(data[1], aob.Pattern, AobMask(aob))))

Scan(memMap, aob) ==
    IF AobError(aob) # "" THEN [err |-> AobError(aob), results |-> <<>>]
    ELSE [err |-> "", results |-> ScanLoop(memMap, 1, aob, <<>>)]

(* ScanFirst and ScanFirstParallel: the first element of the results. *)
FirstOf(err, results) ==
    IF err # "" THEN [err |-> err, addr |-> 0]
    ELSE IF Len(results) = 0 THEN [err |-> "pattern not found", addr |-> 0]
    ELSE [err |-> "", addr |-> results[1]]

(* Lines 129-143: the regions ScanParallel starts a worker for. *)
RECURSIVE ReadableRegions(_, _)
ReadableRegions(memMap, k) ==
    IF k > Len(memMap) THEN <<>>
    ELSE IF memMap[k].Address > ScanUpperLimit \/ ~IsReadablePerms(memMap[k].Perms)
         THEN ReadableRegions(memMap, k + 1)
         ELSE <<[Address |-> memMap[k].Address, Size |-> memMap[k].Size]>>
                \o ReadableRegions(memMap, k + 1)

(* ScanParallel with the limit to the number of CPUs left out. *)
Min2Left(a, b) == a

(* A worker that stores its matches instead of appending them. *)
WorkerStoreOverwrites(results, addr, matches) == AppendMatches(<<>>, addr, matches)

(* Lines 178-180: a worker's appends, made under resultsMutex. *)
WorkerStore(results, addr, matches) == AppendMatches(results, addr, matches)

Min2(a, b) == IF a < b THEN a ELSE b

InitScan ==
    /\ scMm \in SubMaps(1, ScMaxRegions)
    /\ scAob \in ScanAobs
    /\ scMaxdop \in 2 .. ScMaxDop
    /\ scNumCPU \in {1, ScMaxDop}
    /\ scPc = "call"
    /\ scSeq = <<>>
    /\ scSeqFirst = <<>>
    /\ scRegions = <<>>
    /\ scNext = 0
    /\ scSem = 0
    /\ scSemCap = 0
    /\ scWg = 0
    /\ scWorker = <<>>
    /\ scResMu = 0
    /\ scResults = <<>>
    /\ scParErr = ""
    /\ scParFirst = <<>>
    /\ NotScIdle

scInputs == <<scMm, scAob, scMaxdop, scNumCPU>>

(* Scan and ScanFirst on the handle, then the call of ScanParallel up to   *)
(* its loop over readableRegions: lines 80-143.                            *)
ScanCalls ==
    /\ scPc = "call"
    /\ scSeq' = Scan(scMm, scAob)
    /\ scSeqFirst' = FirstOf(scSeq'.err, scSeq'.results)
    /\ IF AobError(scAob) # ""
       THEN /\ scParErr' = AobError(scAob)
            /\ scParFirst' = FirstOf(scParErr', <<>>)
            /\ scPc' = "returned"
            /\ UNCHANGED <<scRegions, scNext, scSemCap, scWorker>>
       ELSE /\ scSemCap' = Min2(scMaxdop, scNumCPU)
            /\ scRegions' = ReadableRegions(scMm, 1)
            /\ scWorker' = [w \in 1 .. Len(scRegions') |-> [pc |-> "new", matches |-> <<>>]]
            /\ scNext' = 1
            /\ scPc' = "spawn"
            /\ UNCHANGED <<scParErr, scParFirst>>
    /\ UNCHANGED <<scInputs, scSem, scWg, scResMu, scResults, notScVars>>

(* Lines 146-152: wg.Add(1), take a slot of sem, start the goroutine. *)
ParSpawn ==
    /\ scPc = "spawn"
    /\ scNext <= Len(scRegions)
    /\ scSem < scSemCap
    /\ scWg' = scWg + 1
    /\ scSem' = scSem + 1
    /\ scWorker' = [scWorker EXCEPT ![scNext].pc = "read"]
    /\ scNext' = scNext + 1
    /\ UNCHANGED <<scInputs, scPc, scSeq, scSeqFirst, scRegions, scSemCap,
                   scResMu, scResults, scParErr, scParFirst, notScVars>>

(* The loop has started a worker for every region. *)
ParLoopEnd ==
    /\ scPc = "spawn"
    /\ scNext > Len(scRegions)
    /\ scPc' = "wait"
    /\ UNCHANGED <<scInputs, scSeq, scSeqFirst, scRegions, scNext, scSem, scSemCap,
                   scWg, scWorker, scResMu, scResults, scParErr, scParFirst, notScVars>>

(* Lines 159-176: the worker reads its region and searches it. *)
WorkerRead(w) ==
    /\ scWorker[w].pc = "read"
    /\ LET data == ReadRegion(scRegions[w].Address, scRegions[w].Size, scMm)
           matches == IF data = <<>> THEN <<>>
                      ELSE findPatternMatches(data[1], scAob.Pattern, AobMask(scAob))
       IN scWorker' = [scWorker EXCEPT
                         ![w] = [pc |-> IF Len(matches) > 0 THEN "lock" ELSE "exit",
                                 matches |-> matches]]
    /\ UNCHANGED <<scInputs, scPc, scSeq, scSeqFirst, scRegions, scNext, scSem,
                   scSemCap, scWg, scResMu, scResults, scParErr, scParFirst, notScVars>>

(* Line 177: resultsMutex.Lock() *)
WorkerLock(w) ==
    /\ scWorker[w].pc = "lock"
    /\ scResMu = 0
    /\ scResMu' = w
    /\ scWorker' = [scWorker EXCEPT ![w].pc = "append"]
    /\ UNCHANGED <<scInputs, scPc, scSeq, scSeqFirst, scRegions, scNext, scSem,
                   scSemCap, scWg, scResults, scParErr, scParFirst, notScVars>>

(* Lines 178-181: the appends and resultsMutex.Unlock() *)
WorkerAppend(w) ==
    /\ scWorker[w].pc = "append"
    /\ scResults' = WorkerStore(scResults, scRegions[w].Address, scWorker[w].matches)
    /\ scResMu' = 0
    /\ scWorker' = [scWorker EXCEPT ![w].pc = "exit"]
    /\ UNCHANGED <<scInputs, scPc, scSeq, scSeqFirst, scRegions, scNext, scSem,
                   scSemCap, scWg, scParErr, scParFirst, notScVars>>

(* Lines 153-157: the deferred release of the slot and wg.Done() *)
WorkerExit(w) ==
    /\ scWorker[w].pc = "exit"
    /\ scSem' = scSem - 1
    /\ scWg' = scWg - 1
    /\ scWorker' = [scWorker EXCEPT ![w].pc = "done"]
    /\ UNCHANGED <<scInputs, scPc, scSeq, scSeqFirst, scRegions, scNext, scSemCap,
                   scResMu, scResults, scParErr, scParFirst, notScVars>>

(* Lines 187-190 and 248-258: wg.Wait() returns, ScanParallel returns      *)
(* results and ScanFirstParallel their first element.                      *)
ParReturn ==
    /\ scPc = "wait"
    /\ scWg = 0
    /\ scParFirst' = FirstOf("", scResults)
    /\ scPc' = "returned"
    /\ UNCHANGED <<scInputs, scSeq, scSeqFirst, scRegions, scNext, scSem, scSemCap,
                   scWg, scWorker, scResMu, scResults, scParErr, notScVars>>

NextScan ==
    \/ ScanCalls
    \/ ParSpawn
    \/ ParLoopEnd
    \/ \E w \in 1 .. Len(scWorker) : WorkerRead(w)
    \/ \E w \in 1 .. Len(scWorker) : WorkerLock(w)
    \/ \E w \in 1 .. Len(scWorker) : WorkerAppend(w)
    \/ \E w \in 1 .. Len(scWorker) : WorkerExit(w)
    \/ ParReturn

SpecScan == InitScan /\ [][NextScan]_vars

----------------------------------------------------------------------------
(* C5: when ScanParallel (maxdop >= 2) returns, it returns an error        *)
(* exactly when Scan does, and otherwise every address occurs in its       *)
(* results as many times as in the results of Scan, whatever the order.    *)
CountIn(seq, a) == Cardinality({ k \in 1 .. Len(seq) : seq[k] = a })

C5_ParallelSameMatches ==
    scPc = "returned" =>
        /\ scParErr = scSeq.err
        /\ \A a \in Addrs : CountIn(scResults, a) = CountIn(scSeq.results, a)

(* Workers of two regions appended in the opposite order of the map. *)
C5_Witness ==
    /\ scPc = "returned"
    /\ Len(scResults) >= 3
    /\ scResults # scSeq.results
    /\ scSemCap >= 2

(* C6: when a match exists, ScanFirst and ScanFirstParallel return the     *)
(* lowest address among the matches of the scan they run.                  *)
Lowest(seq) == CHOOSE a \in { seq[k] : k \in 1 .. Len(seq) } :
                  \A k \in 1 .. Len(seq) : a <= seq[k]

C6_FirstIsLowest ==
    scPc = "returned" =>
        /\ Len(scSeq.results) > 0 =>
             scSeqFirst = [err |-> "", addr |-> Lowest(scSeq.results)]
        /\ Len(scResults) > 0 =>
             scParFirst = [err |-> "", addr |-> Lowest(scResults)]

(* The sequential half of C6, which the code meets. *)
C6_ScanFirstIsLowest ==
    (scPc = "returned" /\ Len(scSeq.results) > 0) =>
        scSeqFirst = [err |-> "", addr |-> Lowest(scSeq.results)]

(* C22: in the result list of Scan and of ScanParallel, under every worker *)
(* interleaving, the matches that belong to one region appear in ascending *)
(* address order relative to each other.                                   *)
AscendingPerRegion(seq, mm) ==
    \A r \in 1 .. Len(mm) : \A i, j \in 1 .. Len(seq) :
        (i < j /\ Covers(mm[r], seq[i]) /\ Covers(mm[r], seq[j])) => seq[i] < seq[j]

C22_RegionMatchesAscending ==
    scPc # "call" =>
        /\ AscendingPerRegion(scSeq.results, scMm)
        /\ AscendingPerRegion(scResults, scMm)

(* Two matches of one region returned after those of a later region. *)
C22_Witness ==
    /\ scPc = "returned"
    /\ scParErr = ""
    /\ \E r \in 1 .. Len(scMm) : \E i, j, k \in 1 .. Len(scResults) :
          /\ k < i /\ i < j
          /\ Covers(scMm[r], scResults[i]) /\ Covers(scMm[r], scResults[j])
          /\ scResults[k] > scResults[j]
    /\ Len(scSeq.results) >= 3

(* Workers of ScanParallel that hold a slot of the semaphore. *)
SlotHolders == { w \in 1 .. Len(scWorker) : scWorker[w].pc \in {"read", "lock", "append", "exit"} }

(* C26: at every moment of ScanParallel with maxdop >= 2 at most           *)
(* min(maxdop, N_CPU) workers hold a semaphore slot; the appends to the    *)
(* shared results are mutually exclusive; and ScanParallel returns only    *)
(* after every started worker has released its slot and finished.          *)
C26_BoundedWorkers ==
    /\ Cardinality(SlotHolders) <= (IF scMaxdop < scNumCPU THEN scMaxdop ELSE scNumCPU)
    /\ Cardinality({ w \in 1 .. Len(scWorker) : scWorker[w].pc = "append" }) <= 1
    /\ scPc = "returned" =>
          /\ SlotHolders = {}
          /\ \A w \in 1 .. Len(scWorker) : scWorker[w].pc \in {"new", "done"}
          /\ scParErr = "" => \A w \in 1 .. Len(scWorker) : scWorker[w].pc = "done"

(* Two workers at once, one of them appending, with a third region still   *)
(* waiting for a slot.                                                     *)
C26_Witness ==
    /\ Cardinality(SlotHolders) = 2
    /\ scSemCap = 2
    /\ \E w \in SlotHolders : scWorker[w].pc = "append"
    /\ \E w \in 1 .. Len(scWorker) : scWorker[w].pc = "new"

----------------------------------------------------------------------------
(* Live Windows back end: WindowsProcess *)

ReadSizes == {0, 1, 8}

NoCall == [op |-> "none", addr |-> 0, size |-> 0, open |-> FALSE,
           result |-> "", osRead |-> FALSE]

InitWin ==
    /\ wnPid = 0
    /\ wnHandle = 0
    /\ wnMm = <<>>
    /\ wnLast = NoCall
    /\ NotWnIdle

(* updateMemoryMapInternal: fails on a closed handle, else leaves p.mm as  *)
(* it is (the VirtualQueryEx loop is a TODO).                              *)
updateMemoryMapInternal(handle) == IF handle = 0 THEN "process not opened" ELSE ""

(* Open: OpenProcess may fail; on success pid and handle are set and the   *)
(* map refreshed, a failure of which is only logged.                       *)
WinOpen ==
    /\ \E pid \in Pids, opened \in BOOLEAN :
         IF ~opened
         THEN /\ wnLast' = [NoCall EXCEPT !.op = "Open", !.result = "OpenProcess failed"]
              /\ UNCHANGED <<wnPid, wnHandle>>
         ELSE /\ wnPid' = pid
              /\ wnHandle' = pid
              /\ wnLast' = [NoCall EXCEPT !.op = "Open", !.open = TRUE, !.result = "ok"]
    /\ UNCHANGED <<wnMm, notWnVars>>

(* Close: a failing CloseHandle returns before anything is reset. *)
WinClose ==
    /\ \E closed \in BOOLEAN :
         IF wnHandle # 0 /\ ~closed
         THEN /\ wnLast' = [NoCall EXCEPT !.op = "Close", !.open = TRUE,
                                          !.result = "CloseHandle failed"]
              /\ UNCHANGED <<wnPid, wnHandle, wnMm>>
         ELSE /\ wnHandle' = 0
              /\ wnPid' = 0
              /\ wnMm' = <<>>
              /\ wnLast' = [NoCall EXCEPT !.op = "Close", !.result = "ok"]
    /\ UNCHANGED notWnVars

WinUpdateMemoryMap ==
    /\ wnLast' = [NoCall EXCEPT !.op = "UpdateMemoryMap", !.open = wnHandle # 0,
                                !.result = IF updateMemoryMapInternal(wnHandle) = ""
                                           THEN "ok"
                                           ELSE updateMemoryMapInternal(wnHandle)]
    /\ UNCHANGED <<wnPid, wnHandle, wnMm, notWnVars>>

WinIsValidAddress ==
    /\ \E addr \in Addrs :
         wnLast' = [NoCall EXCEPT !.op = "IsValidAddress", !.addr = addr,
                                  !.open = wnHandle # 0,
                                  !.result = IF IsValidAddress(addr, wnMm)
                                             THEN "true" ELSE "false"]
    /\ UNCHANGED <<wnPid, wnHandle, wnMm, notWnVars>>

(* ReadMemory: size 0 returns no bytes, a closed handle an error; anything *)
(* else goes to ReadProcessMemory, which succeeds, fails or reads short.   *)
WinReadMemory ==
    /\ \E addr \in Addrs, size \in ReadSizes,
          os \in {"ok", "ReadProcessMemory failed", "read incomplete"} :
         wnLast' =
            IF size = 0
            THEN [op |-> "ReadMemory", addr |-> addr, size |-> size,
                  open |-> wnHandle # 0, result |-> "ok", osRead |-> FALSE]
            ELSE IF wnHandle = 0
            THEN [op |-> "ReadMemory", addr |-> addr, size |-> size,
                  open |-> FALSE, result |-> "process not opened", osRead |-> FALSE]
            ELSE [op |-> "ReadMemory", addr |-> addr, size |-> size,
                  open |-> TRUE, result |-> os, osRead |-> TRUE]
    /\ UNCHANGED <<wnPid, wnHandle, wnMm, notWnVars>>

NextWin ==
    \/ WinOpen
    \/ WinClose
    \/ WinUpdateMemoryMap
    \/ WinIsValidAddress
    \/ WinReadMemory

SpecWin == InitWin /\ [][NextWin]_vars

----------------------------------------------------------------------------
(* C1: a ReadMemory of at least one byte on an open handle, at an address  *)
(* that is not valid per the handle's map (no readable region covers it,   *)
(* or it lies in a guard window), returns ErrAddressNotMapped and issues   *)
(* no read to the OS.  Stated here for the Windows back end.               *)
C1_ReadGatedByMap ==
    (/\ wnLast.op = "ReadMemory"
     /\ wnLast.open
     /\ wnLast.size > 0
     /\ ~ValidPerMap(wnLast.addr, wnMm)) =>
        /\ wnLast.result = "ErrAddressNotMapped"
        /\ ~wnLast.osRead

----------------------------------------------------------------------------
(* Snapshot back end: ProcessDump *)

(* The bytes of the target at capture time. *)
DumpByte(a) == a % 4

DumpData(addr, size) == [k \in 1 .. size |-> DumpByte(addr + k - 1)]

(* process_memory_map.json of the snapshot directories, as listed in the   *)
(* file: regions across the low guard, not readable, across the high       *)
(* guard; one listing is not in address order.                             *)
DumpListings ==
    { <<>>,
      << MemoryMapItem(AddrLow - 1, 3, PermsR) >>,
      << MemoryMapItem(AddrHigh - 1, 3, PermsRW),
         MemoryMapItem(AddrLow + 3, 2, PermsNone),
         MemoryMapItem(AddrLow - 1, 3, PermsR) >> }

(* sort.Slice by Address (the addresses of a listing are distinct). *)
RECURSIVE SortByAddress(_)
SortByAddress(m) ==
    IF Len(m) <= 1 THEN m
    ELSE LET k == CHOOSE i \in 1 .. Len(m) :
                    \A j \in 1 .. Len(m) : m[i].Address <= m[j].Address
             rest == [j \in 1 .. Len(m) - 1 |-> IF j < k THEN m[j] ELSE m[j + 1]]
         IN <<m[k]>> \o SortByAddress(rest)

DumpPids == Pids

NoDumpCall == [op |-> "none", addr |-> 0, size |-> 0, result |-> "", data |-> <<>>]

InitDump ==
    /\ dpPID = 0
    /\ dpMemoryMap = <<>>
    /\ dpBlobsNil = FALSE
    /\ dpBlobs = <<>>
    /\ dpPanic = FALSE
    /\ dpLast = NoDumpCall
    /\ NotDpIdle

(* Lines 128-143 of Load: the blob files of the regions, in map order.     *)
(* files is the set of region addresses that have a blob file, failAt the  *)
(* address whose file cannot be read (or MaxAddr + 1).  Returns the blobs, *)
(* and how the loop ended: "ok", "read" (ReadFile failed) or "panic"       *)
(* (assignment to an entry of the nil map).                                *)
RECURSIVE LoadBlobs(_, _, _, _, _, _)
LoadBlobs(memMap, k, files, failAt, blobsNil, blobs) ==
    IF k > Len(memMap) THEN [end |-> "ok", blobs |-> blobs]
    ELSE LET region == memMap[k]
         IN IF region.Address \notin files
            THEN LoadBlobs(memMap, k + 1, files, failAt, blobsNil, blobs)
            ELSE IF region.Address = failAt THEN [end |-> "read", blobs |-> blobs]
            ELSE IF blobsNil THEN [end |-> "panic", blobs |-> blobs]
            ELSE LoadBlobs(memMap, k + 1, files, failAt, blobsNil,
                    [a \in (DOMAIN blobs) \cup {region.Address} |->
                        IF a = region.Address
                        THEN DumpData(region.Address, region.Size)
                        ELSE blobs[a]])

StartsOf(m) == { m[k].Address : k \in 1 .. Len(m) }

(* Load: the metadata, the map (sorted), the blob files. *)
DumpLoad ==
    /\ ~dpPanic
    /\ \E pid \in DumpPids, listing \in DumpListings,
          failure \in {"none", "metadata", "map"} :
       \E files \in SUBSET StartsOf(listing) :
       \E failAt \in files \cup {MaxAddr + 1} :
         IF failure = "metadata"
         THEN /\ dpLast' = [NoDumpCall EXCEPT !.op = "Load",
                                              !.result = "failed to read metadata"]
              /\ UNCHANGED <<dpPID, dpMemoryMap, dpBlobs, dpPanic>>
         ELSE IF failure = "map"
         THEN /\ dpPID' = pid
              /\ dpLast' = [NoDumpCall EXCEPT !.op = "Load",
                                              !.result = "failed to read memory map"]
              /\ UNCHANGED <<dpMemoryMap, dpBlobs, dpPanic>>
         ELSE LET loaded == LoadBlobs(SortByAddress(listing), 1, files, failAt,
                                      dpBlobsNil, dpBlobs)
              IN /\ dpPID' = pid
                 /\ dpMemoryMap' = SortByAddress(listing)
                 /\ dpBlobs' = loaded.blobs
                 /\ dpPanic' = (loaded.end = "panic")
                 /\ dpLast' = [NoDumpCall EXCEPT
                                 !.op = "Load",
                                 !.result = IF loaded.end = "ok" THEN "ok"
                                            ELSE IF loaded.end = "read"
                                            THEN "failed to read blob"
                                            ELSE "panic"]
    /\ UNCHANGED <<dpBlobsNil, notDpVars>>

DumpClose ==
    /\ ~dpPanic
    /\ dpBlobsNil' = TRUE
    /\ dpBlobs' = <<>>
    /\ dpMemoryMap' = <<>>
    /\ dpLast' = [NoDumpCall EXCEPT !.op = "Close", !.result = "ok"]
    /\ UNCHANGED <<dpPID, dpPanic, notDpVars>>

DumpIsValidAddress ==
    /\ ~dpPanic
    /\ \E addr \in Addrs :
         dpLast' = [NoDumpCall EXCEPT !.op = "IsValidAddress", !.addr = addr,
                                      !.result = IF IsValidAddress(addr, dpMemoryMap)
                                                 THEN "true" ELSE "false"]
    /\ UNCHANGED <<dpPID, dpMemoryMap, dpBlobsNil, dpBlobs, dpPanic, notDpVars>>

(* ProcessDump.ReadMemory: [result, data] *)
DumpReadMemory(addr, size, memMap, blobs) ==
    LET region == GetMemoryRegionForAddress(addr, memMap)
    IN IF region = <<>> THEN [result |-> "ErrAddressNotMapped", data |-> <<>>]
       ELSE IF region[1].Address \notin DOMAIN blobs
       THEN [result |-> "no data for region", data |-> <<>>]
       ELSE LET data == blobs[region[1].Address]
                offset == addr - region[1].Address
            IN IF offset >= Len(data)
               THEN [result |-> "out of bounds of region data", data |-> <<>>]
               ELSE IF offset + size > Len(data)
               THEN [result |-> "exceeds region data bounds", data |-> <<>>]
               ELSE [result |-> "ok",
                     data |-> SubSeq(data, offset + 1, offset + size)]

DumpRead ==
    /\ ~dpPanic
    /\ \E addr \in Addrs, size \in ReadSizes :
         LET r == DumpReadMemory(addr, size, dpMemoryMap, dpBlobs)
         IN dpLast' = [op |-> "ReadMemory", addr |-> addr, size |-> size,
                       result |-> r.result, data |-> r.data]
    /\ UNCHANGED <<dpPID, dpMemoryMap, dpBlobsNil, dpBlobs, dpPanic, notDpVars>>

NextDump ==
    \/ DumpLoad
    \/ DumpClose
    \/ DumpIsValidAddress
    \/ DumpRead

SpecDump == InitDump /\ [][NextDump]_vars

----------------------------------------------------------------------------
(* C8: IsValidAddress is false for every address at or below 0x10000 and   *)
(* every address above 0x700000000000, whatever the map.  Stated here for  *)
(* the snapshot back end.                                                  *)
C8_GuardWindowsRejected ==
    (/\ dpLast.op = "IsValidAddress"
     /\ (dpLast.addr <= AddrLow \/ dpLast.addr > AddrHigh)) =>
        dpLast.result = "false"

----------------------------------------------------------------------------
(* Live Linux back end: LinuxProcess, called from several threads *)

Threads == {1, 2}

(* /proc/<pid>/maps as ReadMemoryMap returns it: empty, one region, and a  *)
(* listing that is not in address order.                                   *)
LiveListings ==
    { <<>>,
      << MemoryMapItem(AddrLow + 1, 2, PermsR) >>,
      << MemoryMapItem(AddrLow + 5, 2, PermsRW),
         MemoryMapItem(AddrLow + 1, 2, PermsR) >> }

(* Addresses read: in the low guard window, mapped, not mapped. *)
LiveAddrs == {AddrLow, AddrLow + 1, AddrLow + 3}

NoLocals == [pid |-> 0, addr |-> 0, caller |-> "", afterClose |-> FALSE]

NoReturn == [thread |-> 0, op |-> "none", result |-> "", afterClose |-> FALSE]

Return(t, op, result, afterClose) ==
    [thread |-> t, op |-> op, result |-> result, afterClose |-> afterClose]

InitLive ==
    /\ lvPid = 0
    /\ lvMm = <<>>
    /\ lvMu = 0
    /\ lvPc = [t \in Threads |-> "idle"]
    /\ lvLoc = [t \in Threads |-> NoLocals]
    /\ lvClosed = FALSE
    /\ lvLast = NoReturn
    /\ NotLvIdle

(* Open, os.Stat of /proc/<pid>: a missing process is an error. *)
OpenStat(t) ==
    /\ lvPc[t] = "idle"
    /\ \E pid \in Pids, exists \in BOOLEAN :
         IF exists
         THEN /\ lvPc' = [lvPc EXCEPT ![t] = "open_set"]
              /\ lvLoc' = [lvLoc EXCEPT ![t] = [NoLocals EXCEPT !.pid = pid]]
              /\ UNCHANGED lvLast
         ELSE /\ lvLast' = Return(t, "Open", "process does not exist", FALSE)
              /\ UNCHANGED <<lvPc, lvLoc>>
    /\ UNCHANGED <<lvPid, lvMm, lvMu, lvClosed, notLvVars>>

(* Open, lines 60-63: p.pid = pid under the lock, which is then released. *)
OpenSetPid(t) ==
    /\ lvPc[t] = "open_set"
    /\ lvMu = 0
    /\ lvPid' = lvLoc[t].pid
    /\ lvPc' = [lvPc EXCEPT ![t] = "update_lock"]
    /\ lvLoc' = [lvLoc EXCEPT ![t].caller = "Open"]
    /\ UNCHANGED <<lvMm, lvMu, lvClosed, lvLast, notLvVars>>

(* A call of UpdateMemoryMap by the program itself. *)
UpdateCall(t) ==
    /\ lvPc[t] = "idle"
    /\ lvPc' = [lvPc EXCEPT ![t] = "update_lock"]
    /\ lvLoc' = [lvLoc EXCEPT ![t] = [NoLocals EXCEPT !.caller = "UpdateMemoryMap"]]
    /\ UNCHANGED <<lvPid, lvMm, lvMu, lvClosed, lvLast, notLvVars>>

(* UpdateMemoryMap, line 101: p.mu.Lock() *)
UpdateLock(t) ==
    /\ lvPc[t] = "update_lock"
    /\ lvMu = 0
    /\ lvMu' = t
    /\ lvPc' = [lvPc EXCEPT ![t] = "update_locked"]
    /\ UNCHANGED <<lvPid, lvMm, lvLoc, lvClosed, lvLast, notLvVars>>

(* The error of UpdateMemoryMap with the lock held: "" is nil. *)
UpdateError(pid, readOk) ==
    IF pid = 0 THEN "process not opened"
    ELSE IF ~readOk THEN "failed to read memory map"
    ELSE ""

(* UpdateMemoryMap, lines 103-122, and the deferred unlock; when Open      *)
(* called it, Open returns with it.                                        *)
UpdateLocked(t) ==
    /\ lvPc[t] = "update_locked"
    /\ lvMu = t
    /\ \E readOk \in BOOLEAN, listing \in LiveListings :
         LET err == UpdateError(lvPid, readOk)
             fromOpen == lvLoc[t].caller = "Open"
             opened == fromOpen /\ err = ""
         IN /\ lvMm' = IF err = "" THEN SortByAddress(listing) ELSE lvMm
            /\ lvLast' = Return(t, lvLoc[t].caller,
                                IF err = "" THEN "ok"
                                ELSE IF fromOpen THEN "failed to initialize memory map"
                                ELSE err,
                                FALSE)
            /\ lvClosed' = IF opened THEN FALSE ELSE lvClosed
            /\ lvLoc' = [u \in Threads |->
                            IF u = t THEN NoLocals
                            ELSE IF opened THEN [lvLoc[u] EXCEPT !.afterClose = FALSE]
                            ELSE lvLoc[u]]
    /\ lvMu' = 0
    /\ lvPc' = [lvPc EXCEPT ![t] = "idle"]
    /\ UNCHANGED <<lvPid, notLvVars>>

(* Close: under the lock, pid and map are reset. *)
LiveClose(t) ==
    /\ lvPc[t] = "idle"
    /\ lvMu = 0
    /\ lvPid' = 0
    /\ lvMm' = <<>>
    /\ lvClosed' = (lvClosed \/ lvPid # 0)
    /\ lvLast' = Return(t, "Close", "ok", FALSE)
    /\ UNCHANGED <<lvMu, lvPc, lvLoc, notLvVars>>

(* IsValidAddress: under the lock. *)
LiveIsValidAddress(t) ==
    /\ lvPc[t] = "idle"
    /\ lvMu = 0
    /\ \E addr \in LiveAddrs :
         lvLast' = Return(t, "IsValidAddress",
                          IF isValidAddressInternal(addr, lvMm) THEN "true" ELSE "false",
                          FALSE)
    /\ UNCHANGED <<lvPid, lvMm, lvMu, lvPc, lvLoc, lvClosed, notLvVars>>

(* ReadMemory, lines 66-69: p.pid is read without the lock. *)
ReadPid(t) ==
    /\ lvPc[t] = "idle"
    /\ \E addr \in LiveAddrs :
         IF lvPid = 0
         THEN /\ lvLast' = Return(t, "ReadMemory", "ErrProcessNotOpen", lvClosed)
              /\ UNCHANGED <<lvPc, lvLoc>>
         ELSE /\ lvPc' = [lvPc EXCEPT ![t] = "read_validate"]
              /\ lvLoc' = [lvLoc EXCEPT ![t] = [pid |-> lvPid, addr |-> addr,
                                                caller |-> "ReadMemory",
                                                afterClose |-> lvClosed]]
              /\ UNCHANGED lvLast
    /\ UNCHANGED <<lvPid, lvMm, lvMu, lvClosed, notLvVars>>

(* ReadMemory, lines 72-79: the address is validated under the lock. *)
ReadValidate(t) ==
    /\ lvPc[t] = "read_validate"
    /\ lvMu = 0
    /\ IF isValidAddressInternal(lvLoc[t].addr, lvMm)
       THEN /\ lvPc' = [lvPc EXCEPT ![t] = "read_syscall"]
            /\ UNCHANGED <<lvLoc, lvLast>>
       ELSE /\ lvLast' = Return(t, "ReadMemory", "ErrAddressNotMapped",
                                lvLoc[t].afterClose)
            /\ lvPc' = [lvPc EXCEPT ![t] = "idle"]
            /\ lvLoc' = [lvLoc EXCEPT ![t] = NoLocals]
    /\ UNCHANGED <<lvPid, lvMm, lvMu, lvClosed, notLvVars>>

(* ReadMemory, lines 82-94: process_vm_readv on the pid read at entry. *)
ReadSyscall(t) ==
    /\ lvPc[t] = "read_syscall"
    /\ \E ioOk \in BOOLEAN :
         lvLast' = Return(t, "ReadMemory",
                          IF ioOk THEN "ok" ELSE "ErrReadFailed",
                          lvLoc[t].afterClose)
    /\ lvPc' = [lvPc EXCEPT ![t] = "idle"]
    /\ lvLoc' = [lvLoc EXCEPT ![t] = NoLocals]
    /\ UNCHANGED <<lvPid, lvMm, lvMu, lvClosed, notLvVars>>

NextLive ==
    \/ \E t \in Threads : OpenStat(t)
    \/ \E t \in Threads : OpenSetPid(t)
    \/ \E t \in Threads : UpdateCall(t)
    \/ \E t \in Threads : UpdateLock(t)
    \/ \E t \in Threads : UpdateLocked(t)
    \/ \E t \in Threads : LiveClose(t)
    \/ \E t \in Threads : LiveIsValidAddress(t)
    \/ \E t \in Threads : ReadPid(t)
    \/ \E t \in Threads : ReadValidate(t)
    \/ \E t \in Threads : ReadSyscall(t)

SpecLive == InitLive /\ [][NextLive]_vars

----------------------------------------------------------------------------
(* C9: a ReadMemory call made after a Close of a handle with pid # 0 has   *)
(* returned, with no Open returning nil between that Close and the read's  *)
(* return, returns an error.  Stated here for the live Linux back end.     *)
C9_NoReadAfterClose ==
    (lvLast.op = "ReadMemory" /\ lvLast.afterClose) => lvLast.result # "ok"

(* C10: whenever no call is in progress on the handle, pid # 0 implies a   *)
(* non-empty memory map.                                                   *)
C10_OpenImpliesMap ==
    ((\A t \in Threads : lvPc[t] = "idle") /\ lvPid # 0) => Len(lvMm) > 0

(* C25: in ReadMemory the PID used for the cross-process read and the map  *)
(* that validates the address are observed in one critical section: when   *)
(* the validation under the mutex lets the read go on to its syscall, the  *)
(* PID the syscall will use is the PID the handle has in that critical     *)
(* section, under any interleaving with Open, Close and UpdateMemoryMap.   *)
C25_PidAndMapTogether ==
    [][\A t \in Threads :
          (lvPc[t] = "read_validate" /\ lvPc'[t] = "read_syscall") =>
              lvLoc[t].pid = lvPid]_vars

----------------------------------------------------------------------------
(* Snapshots: LinuxProcess.Save, then ProcessDump.Load and reads *)

(* 100 MiB, the size above which a region is not saved. *)
SaveMaxRegionSize == 3

SvMaxRead == 2

(* The maps UpdateMemoryMap gives Save: two adjacent readable regions; a   *)
(* region in the low guard window, one without read permission and one     *)
(* over the size limit.                                                    *)
SaveListings ==
    { <<>>,
      << MemoryMapItem(AddrLow + 1, 2, PermsR),
         MemoryMapItem(AddrLow + 3, 2, PermsRW) >>,
      << MemoryMapItem(AddrLow - 1, 2, PermsR),
         MemoryMapItem(AddrLow + 1, 2, PermsNone),
         MemoryMapItem(AddrLow + 4, SaveMaxRegionSize + 1, PermsR) >> }

NoStats == [skipped_non_readable |-> 0, skipped_too_large |-> 0, read_error |-> 0,
            write_error |-> 0, saved |-> 0, timeout |-> 0]

EmptyDir == [metadata |-> 0, map |-> <<>>, hasMap |-> FALSE, blobs |-> {}]

NoDump == [loaded |-> FALSE, PID |-> 0, MemoryMap |-> <<>>, Blobs |-> <<>>]

NoRead == [op |-> "none", addr |-> 0, size |-> 0,
           live |-> [result |-> "", data |-> <<>>],
           dump |-> [result |-> "", data |-> <<>>]]

(* blob_0x<Address>_<Size>.bin *)
BlobFile(region, data) ==
    [Address |-> region.Address, Size |-> region.Size, Data |-> data]

HasBlobFile(blobs, region) ==
    \E f \in blobs : f.Address = region.Address /\ f.Size = region.Size

(* os.WriteFile of a blob file that succeeds or fails after creating it:   *)
(* the file of that name holds what was written.                           *)
WriteBlobFile(blobs, region, data) ==
    { f \in blobs : ~(f.Address = region.Address /\ f.Size = region.Size) }
        \cup { BlobFile(region, data) }

InitSave ==
    /\ svPid = 0
    /\ svPc = "idle"
    /\ svMap = <<>>
    /\ svI = 0
    /\ svStats = NoStats
    /\ svData = <<>>
    /\ svDir = EmptyDir
    /\ svTimeout = FALSE
    /\ svOutcome = <<>>
    /\ svResult = ""
    /\ svDump = NoDump
    /\ svLast = NoRead
    /\ NotSvIdle

svLoop == <<svMap, svI, svStats, svData, svTimeout, svOutcome>>

(* The handle is opened (Open returning nil). *)
SaveOpen ==
    /\ svPc \in {"idle", "returned"}
    /\ svPid = 0
    /\ \E pid \in Pids : svPid' = pid
    /\ UNCHANGED <<svPc, svLoop, svDir, svResult, svDump, svLast, notSvVars>>

(* The error Save returns before its loop: "" is none. *)
SaveSetupError(mkdirOk, pid, metadataOk, updateOk, mapOk) ==
    IF ~mkdirOk THEN "failed to create directory"
    ELSE IF pid = 0 THEN "process not opened"
    ELSE IF ~metadataOk THEN "failed to write metadata file"
    ELSE IF ~updateOk THEN "failed to update memory map"
    ELSE IF ~mapOk THEN "failed to write memory map file"
    ELSE ""

(* Save, lines 19-114: the directory, metadata.json, the refreshed map,    *)
(* process_memory_map.json, the watchdog and the counts.                   *)
SaveSetup ==
    /\ svPc \in {"idle", "returned"}
    /\ \E mkdirOk \in BOOLEAN, metadataOk \in BOOLEAN, updateOk \in BOOLEAN,
          mapOk \in BOOLEAN, listing \in SaveListings :
         LET err == SaveSetupError(mkdirOk, svPid, metadataOk, updateOk, mapOk)
             wroteMetadata == mkdirOk /\ svPid # 0 /\ metadataOk
         IN /\ svDir' = [svDir EXCEPT
                           !.metadata = IF wroteMetadata THEN svPid ELSE @,
                           !.map = IF err = "" THEN listing ELSE @,
                           !.hasMap = IF err = "" THEN TRUE ELSE @]
            /\ svMap' = IF err = "" THEN listing ELSE <<>>
            /\ svPc' = IF err = "" THEN "check" ELSE "returned"
            /\ svResult' = err
    /\ svI' = 1
    /\ svStats' = NoStats
    /\ svData' = <<>>
    /\ svTimeout' = FALSE
    /\ svOutcome' = <<>>
    /\ svDump' = NoDump
    /\ svLast' = NoRead
    /\ UNCHANGED <<svPid, notSvVars>>

(* The watchdog goroutine: 30 s after it was started it sends on           *)
(* timeoutChan, wherever Save is.                                          *)
WatchdogFire ==
    /\ svPc \in {"check", "read", "write"}
    /\ ~svTimeout
    /\ svTimeout' = TRUE
    /\ UNCHANGED <<svPid, svPc, svMap, svI, svStats, svData, svDir, svOutcome,
                   svResult, svDump, svLast, notSvVars>>

Count(stats, name) == [stats EXCEPT ![name] = @ + 1]

(* What Save does with a region before reading it: "" is read it. *)
SaveSkip(region) ==
    IF ~IsReadablePerms(region.Perms) THEN "skipped_non_readable"
    ELSE IF region.Size > SaveMaxRegionSize THEN "skipped_too_large"
    ELSE ""

(* Save, lines 116-144 and 193-205: the end of the loop, the select on     *)
(* timeoutChan, the two skips.                                             *)
SaveCheck ==
    /\ svPc = "check"
    /\ IF svI > Len(svMap)
       THEN /\ svPc' = "returned"
            /\ svResult' = "ok"
            /\ UNCHANGED <<svI, svStats, svOutcome>>
       ELSE IF svTimeout
       THEN /\ svPc' = "returned"
            /\ svResult' = "save operation timed out"
            /\ svStats' = [svStats EXCEPT !.timeout = 1]
            /\ UNCHANGED <<svI, svOutcome>>
       ELSE IF SaveSkip(svMap[svI]) # ""
       THEN /\ svStats' = Count(svStats, SaveSkip(svMap[svI]))
            /\ svOutcome' = Append(svOutcome, SaveSkip(svMap[svI]))
            /\ svI' = svI + 1
            /\ UNCHANGED <<svPc, svResult>>
       ELSE /\ svPc' = "read"
            /\ UNCHANGED <<svI, svStats, svOutcome, svResult>>
    /\ UNCHANGED <<svPid, svMap, svData, svDir, svTimeout, svDump, svLast, notSvVars>>

(* Save, lines 156-167: ReadMemory of the whole region. *)
SaveRead ==
    /\ svPc = "read"
    /\ \E ioOk \in BOOLEAN :
         LET region == svMap[svI]
         IN IF ReadMemoryStatus(svPid, region.Address, svMap, ioOk) = "ok"
            THEN /\ svData' = DumpData(region.Address, region.Size)
                 /\ svPc' = "write"
                 /\ UNCHANGED <<svI, svStats, svOutcome>>
            ELSE /\ svStats' = Count(svStats, "read_error")
                 /\ svOutcome' = Append(svOutcome, "read_error")
                 /\ svI' = svI + 1
                 /\ svPc' = "check"
                 /\ UNCHANGED svData
    /\ UNCHANGED <<svPid, svMap, svDir, svTimeout, svResult, svDump, svLast, notSvVars>>

(* Save, lines 172-190: os.WriteFile creates or truncates the file and     *)
(* writes; it fails before the file exists, or with part of the bytes      *)
(* written, and leaves the file in either case.                            *)
SaveWrite ==
    /\ svPc = "write"
    /\ \E created \in BOOLEAN, written \in 0 .. Len(svData) :
         LET region == svMap[svI]
             outcome == IF created /\ written = Len(svData) THEN "saved"
                        ELSE "write_error"
         IN /\ svDir' = IF created
                        THEN [svDir EXCEPT !.blobs =
                                WriteBlobFile(@, region, SubSeq(svData, 1, written))]
                        ELSE svDir
            /\ svStats' = Count(svStats, outcome)
            /\ svOutcome' = Append(svOutcome, outcome)
    /\ svI' = svI + 1
    /\ svData' = <<>>
    /\ svPc' = "check"
    /\ UNCHANGED <<svPid, svMap, svTimeout, svResult, svDump, svLast, notSvVars>>

(* ProcessDump.Load of the directory into a new ProcessDump, every file    *)
(* read without error: the map sorted, the blob of every region that has a *)
(* file.                                                                   *)
LoadedBlobs(memMap, blobs) ==
    [a \in { memMap[k].Address : k \in { j \in 1 .. Len(memMap) :
                                           HasBlobFile(blobs, memMap[j]) } } |->
        LET k == CHOOSE j \in 1 .. Len(memMap) : memMap[j].Address = a
        IN (CHOOSE f \in blobs : f.Address = a /\ f.Size = memMap[k].Size).Data]

SnapLoad ==
    /\ svPc = "returned"
    /\ svResult = "ok"
    /\ svDump' = [loaded |-> TRUE, PID |-> svDir.metadata,
                  MemoryMap |-> SortByAddress(svDir.map),
                  Blobs |-> LoadedBlobs(SortByAddress(svDir.map), svDir.blobs)]
    /\ UNCHANGED <<svPid, svPc, svLoop, svDir, svResult, svLast, notSvVars>>

(* process_vm_readv of size bytes at addr: every byte has to lie in a      *)
(* readable mapping of the target.                                         *)
TargetReadable(addr, size, mm) ==
    \A a \in addr .. addr + size - 1 :
        \E k \in 1 .. Len(mm) : Covers(mm[k], a) /\ IsReadablePerms(mm[k].Perms)

(* LinuxProcess.ReadMemory on the handle as it was when Save ran. *)
LiveReadMemory(pid, addr, size, mm) ==
    LET status == ReadMemoryStatus(pid, addr, mm, TargetReadable(addr, size, mm))
    IN [result |-> status,
        data |-> IF status = "ok" THEN DumpData(addr, size) ELSE <<>>]

(* A read on the loaded dump, next to the same read on the live handle. *)
SnapRead ==
    /\ svDump.loaded
    /\ \E addr \in Addrs, size \in 1 .. SvMaxRead :
         svLast' = [op |-> "ReadMemory", addr |-> addr, size |-> size,
                    live |-> LiveReadMemory(svPid, addr, size, svMap),
                    dump |-> DumpReadMemory(addr, size, svDump.MemoryMap,
                                            svDump.Blobs)]
    /\ UNCHANGED <<svPid, svPc, svLoop, svDir, svResult, svDump, notSvVars>>

NextSave ==
    \/ SaveOpen
    \/ SaveSetup
    \/ WatchdogFire
    \/ SaveCheck
    \/ SaveRead
    \/ SaveWrite
    \/ SnapLoad
    \/ SnapRead

SpecSave == InitSave /\ [][NextSave]_vars

----------------------------------------------------------------------------
(* C11: after Save and Load of the directory, a read on the dump whose     *)
(* bytes are all covered by blobs this Save persisted returns the bytes    *)
(* the live handle returned for the same read, also when the read runs     *)
(* from one persisted region into the next.                                *)
PersistedAt(addr) ==
    \E k \in 1 .. Len(svOutcome) : svOutcome[k] = "saved" /\ Covers(svMap[k], addr)

C11_SnapshotReadsAgree ==
    (/\ svLast.op = "ReadMemory"
     /\ \A a \in svLast.addr .. svLast.addr + svLast.size - 1 : PersistedAt(a)
     /\ svLast.live.result = "ok") =>
        svLast.dump = svLast.live

----------------------------------------------------------------------------
(* C12: when Save returns nil and its watchdog has not fired, the five     *)
(* counts sum to the number of regions, each count is the number of        *)
(* regions that went to it, a readable region went to skipped_too_large    *)
(* iff its size is over the limit, and the directory holds a blob file for *)
(* a region iff the region went to saved.                                  *)
CountedAs(name) ==
    Cardinality({ k \in 1 .. Len(svOutcome) : svOutcome[k] = name })

SaveCounts ==
    {"skipped_non_readable", "skipped_too_large", "read_error", "write_error", "saved"}

C12_RegionsAccounted ==
    (svPc = "returned" /\ svResult = "ok" /\ ~svTimeout) =>
        /\ Len(svOutcome) = Len(svMap)
        /\ svStats.skipped_non_readable + svStats.skipped_too_large
              + svStats.read_error + svStats.write_error + svStats.saved = Len(svMap)
        /\ \A name \in SaveCounts : svStats[name] = CountedAs(name)
        /\ \A k \in 1 .. Len(svMap) :
              IsReadablePerms(svMap[k].Perms) =>
                 (svOutcome[k] = "skipped_too_large"
                    <=> svMap[k].Size > SaveMaxRegionSize)
        /\ \A k \in 1 .. Len(svMap) :
              HasBlobFile(svDir.blobs, svMap[k]) <=> svOutcome[k] = "saved"

(* C13: when the watchdog fired while Save was running through a map that  *)
(* has regions, Save returns the timeout error, and the blob file of every *)
(* region it had saved is in the directory.                                *)
C13_WatchdogAborts ==
    (svPc = "returned" /\ svTimeout /\ Len(svMap) > 0) =>
        /\ svResult = "save operation timed out"
        /\ \A k \in 1 .. Len(svOutcome) :
              svOutcome[k] = "saved" => HasBlobFile(svDir.blobs, svMap[k])

----------------------------------------------------------------------------
(* Writes: LinuxProcess.WriteMemory *)

WrMaxData == 2

PermsWriteOnly == <<"-", "w", "-", "p">>

(* Maps of the handle: read-only next to read-write, a write-only region,  *)
(* writable regions across both guard windows.                             *)
WriteMaps ==
    { <<>>,
      << MemoryMapItem(AddrLow + 1, 2, PermsR),
         MemoryMapItem(AddrLow + 3, 2, PermsRW),
         MemoryMapItem(AddrLow + 5, 2, PermsWriteOnly) >>,
      << MemoryMapItem(AddrLow - 1, 3, PermsRW),
         MemoryMapItem(AddrHigh - 1, 3, PermsRW) >> }

WriteAddrs ==
    {0, AddrLow, AddrLow + 1, AddrLow + 2, AddrLow + 3, AddrLow + 5,
     AddrHigh, AddrHigh + 1}

WriteData == SeqsUpTo({0, 1}, 0, WrMaxData)

NoWriteLocals == [pid |-> 0, addr |-> 0, data |-> <<>>, dataCopy |-> <<>>,
                  lockedPid |-> 0, lockedMm |-> <<>>]

NoWrite == [op |-> "none", addr |-> 0, data |-> <<>>, result |-> "",
            issued |-> FALSE, sent |-> <<>>, written |-> 0,
            lockedPid |-> 0, lockedMm |-> <<>>]

InitWrite ==
    /\ wrPid = 0
    /\ wrMm = <<>>
    /\ wrPc = "idle"
    /\ wrLoc = NoWriteLocals
    /\ wrLast = NoWrite
    /\ NotWrIdle

(* Open returning nil, or UpdateMemoryMap on the open handle. *)
WriteOpen ==
    /\ wrPc # "panic"
    /\ \E pid \in Pids, mm \in WriteMaps :
         /\ wrPid' = IF wrPid = 0 THEN pid ELSE wrPid
         /\ wrMm' = mm
    /\ UNCHANGED <<wrPc, wrLoc, wrLast, notWrVars>>

(* Close, by the caller or by another goroutine while a write is between   *)
(* its checks and its syscall.                                             *)
WriteClose ==
    /\ wrPc # "panic"
    /\ wrPid # 0
    /\ wrPid' = 0
    /\ wrMm' = <<>>
    /\ UNCHANGED <<wrPc, wrLoc, wrLast, notWrVars>>

(* The region check without the permission test. *)
WriteCheckErrorNoPerms(pid, addr, mm) ==
    IF pid = 0 THEN "process not opened"
    ELSE IF ~isValidAddressInternal(addr, mm) THEN "invalid memory address"
    ELSE IF GetMemoryRegionForAddress(addr, mm) = <<>> THEN "memory region not found"
    ELSE ""

(* WriteMemory, lines 56-84: the error of the checks, "" when they pass. *)
WriteCheckError(pid, addr, mm) ==
    IF pid = 0 THEN "process not opened"
    ELSE IF ~isValidAddressInternal(addr, mm) THEN "invalid memory address"
    ELSE IF GetMemoryRegionForAddress(addr, mm) = <<>> THEN "memory region not found"
    ELSE IF ~IsWritablePerms(GetMemoryRegionForAddress(addr, mm)[1].Perms)
    THEN "memory region is not writable"
    ELSE ""

(* WriteMemory, lines 54-90: the checks under the lock, and the copy of    *)
(* data.                                                                   *)
WriteCheck ==
    /\ wrPc = "idle"
    /\ \E addr \in WriteAddrs, data \in WriteData :
         LET err == WriteCheckError(wrPid, addr, wrMm)
         IN IF err # ""
            THEN /\ wrLast' = [op |-> "WriteMemory", addr |-> addr, data |-> data,
                               result |-> err, issued |-> FALSE, sent |-> <<>>,
                               written |-> 0, lockedPid |-> wrPid, lockedMm |-> wrMm]
                 /\ UNCHANGED <<wrPc, wrLoc>>
            ELSE /\ wrLoc' = [pid |-> wrPid, addr |-> addr, data |-> data,
                              dataCopy |-> data, lockedPid |-> wrPid,
                              lockedMm |-> wrMm]
                 /\ wrPc' = "syscall"
                 /\ UNCHANGED wrLast
    /\ UNCHANGED <<wrPid, wrMm, notWrVars>>

(* WriteMemory, lines 93-109, and process_vm_writev: &localBuf[0] of an    *)
(* empty copy panics; the syscall fails, or writes some or all bytes.      *)
WriteSyscall ==
    /\ wrPc = "syscall"
    /\ IF Len(wrLoc.dataCopy) = 0
       THEN /\ wrPc' = "panic"
            /\ wrLast' = [op |-> "WriteMemory", addr |-> wrLoc.addr,
                          data |-> wrLoc.data, result |-> "panic",
                          issued |-> FALSE, sent |-> <<>>, written |-> 0,
                          lockedPid |-> wrLoc.lockedPid,
                          lockedMm |-> wrLoc.lockedMm]
       ELSE /\ wrPc' = "idle"
            /\ \E failed \in BOOLEAN, written \in 0 .. Len(wrLoc.dataCopy) :
                 wrLast' = [op |-> "WriteMemory", addr |-> wrLoc.addr,
                            data |-> wrLoc.data,
                            result |-> IF failed THEN "failed to write process memory"
                                       ELSE IF written # Len(wrLoc.data)
                                       THEN "only wrote part"
                                       ELSE "ok",
                            issued |-> TRUE, sent |-> wrLoc.dataCopy,
                            written |-> IF failed THEN 0 ELSE written,
                            lockedPid |-> wrLoc.lockedPid,
                            lockedMm |-> wrLoc.lockedMm]
    /\ wrLoc' = NoWriteLocals
    /\ UNCHANGED <<wrPid, wrMm, notWrVars>>

NextWrite ==
    \/ WriteOpen
    \/ WriteClose
    \/ WriteCheck
    \/ WriteSyscall

SpecWrite == InitWrite /\ [][NextWrite]_vars

----------------------------------------------------------------------------
(* C14: WriteMemory issues the cross-process write only if, when it held   *)
(* the handle's lock, the handle was open, the address was valid as for a  *)
(* read and the region covering it had its write bit set; otherwise it     *)
(* returns an error (or panics on empty data) without writing.  The bytes  *)
(* handed to the syscall are the caller's data, and a write of fewer bytes *)
(* than given is an error.                                                 *)
WritablePerMap(a, mm) ==
    \E k \in 1 .. Len(mm) :
        Covers(mm[k], a) /\ Len(mm[k].Perms) > 1 /\ mm[k].Perms[2] = "w"

WritePermitted(w) ==
    /\ w.lockedPid # 0
    /\ ValidPerMap(w.addr, w.lockedMm)
    /\ WritablePerMap(w.addr, w.lockedMm)

----------------------------------------------------------------------------
(* Materialising records: pod.ReadT / pod.ReadBlob and pod.ReadStruct *)

PdNameLen == 3

(* A pod tag is its comma-separated parts; a part is <<word>> or           *)
(* <<key, value>> for key=value.                                           *)
TagCharArray == << <<"char_array">> >>
TagSkipCharArray == << <<"skip">>, <<"char_array">> >>
TagValidPointer == << <<"valid_pointer">> >>
TagValidPointerStrict == << <<"valid_pointer">>, <<"err_failure">> >>

Field(name, kind, tag, elem) == [name |-> name, kind |-> kind, tag |-> tag, elem |-> elem]

(* The pointee type. *)
Weapon == << Field("Ammo", "int32", <<>>, "") >>

(* The record with a Go pointer field, and the one that keeps the foreign  *)
(* address in a uint64.                                                    *)
PlayerPtr(nameTag, ptrTag) ==
    << Field("Health", "int32", <<>>, ""),
       Field("Name", "bytes", nameTag, ""),
       Field("WeaponPtr", "ptr", ptrTag, "Weapon") >>

PlayerU64(nameTag, ptrTag) ==
    << Field("Health", "int32", <<>>, ""),
       Field("Name", "bytes", nameTag, ""),
       Field("WeaponPtr", "uint64", ptrTag, "") >>

PodTypeOf(in) ==
    IF in.type = "PlayerPtr" THEN PlayerPtr(in.nameTag, in.ptrTag)
    ELSE PlayerU64(in.nameTag, in.ptrTag)

(* Foreign addresses: the record, its pointee, and one below the low guard. *)
PdRoot == AddrLow + 1
PdGood == AddrLow + 5
PdBad == AddrLow - 1

(* The foreign memory at addr, by field name. *)
Foreign(in, addr) ==
    IF addr = PdGood THEN [Ammo |-> 5]
    ELSE [Health |-> 7, Name |-> in.name, WeaponPtr |-> in.ptr]

(* proc.ReadMemory / proc.ReadBlob of a record at addr succeeds. *)
PodReadable(in, addr) ==
    \/ addr = PdRoot /\ in.rootOk
    \/ addr = PdGood /\ in.pointeeOk

(* proc.IsValidAddress *)
PodValid(addr) == addr \in {PdRoot, PdGood}

ZeroField(f) ==
    IF f.kind = "bytes" THEN [k \in 1 .. PdNameLen |-> 0]
    ELSE IF f.kind = "ptr" THEN <<>>
    ELSE 0

FieldNames(T) == { T[k].name : k \in 1 .. Len(T) }

FieldOf(T, name) == T[CHOOSE k \in 1 .. Len(T) : T[k].name = name]

(* The zero value of T. *)
Zero(T) == [n \in FieldNames(T) |-> ZeroField(FieldOf(T, n))]

(* strings.Contains(tag, word), for the words used as tags here. *)
TagContains(tag, word) == \E k \in 1 .. Len(tag) : tag[k] = <<word>>

(* parsePodTags: tags["type"] is the first part as written, unless a later *)
(* type=... part replaces it.                                              *)
RECURSIVE TagTypeFrom(_, _, _)
TagTypeFrom(tag, k, type) ==
    IF k > Len(tag) THEN type
    ELSE TagTypeFrom(tag, k + 1,
                     IF Len(tag[k]) = 2 /\ tag[k][1] = "type" THEN tag[k][2] ELSE type)

TagType(tag) ==
    IF Len(tag) = 0 THEN ""
    ELSE TagTypeFrom(tag, 2, IF Len(tag[1]) = 1 THEN tag[1][1] ELSE "key=value")

(* cleanCharArray: every byte after the first zero byte is set to zero. *)
RECURSIVE cleanCharArrayFrom(_, _, _)
cleanCharArrayFrom(bytes, i, foundNull) ==
    IF i > Len(bytes) THEN bytes
    ELSE IF foundNull
    THEN cleanCharArrayFrom([bytes EXCEPT ![i] = 0], i + 1, TRUE)
    ELSE cleanCharArrayFrom(bytes, i + 1, bytes[i] = 0)

cleanCharArray(bytes) == cleanCharArrayFrom(bytes, 1, FALSE)

(* processField in lenient mode, with validatePointerField: the value of   *)
(* the field afterwards.                                                   *)
processField(f, value) ==
    IF f.tag = <<>> THEN value
    ELSE IF TagType(f.tag) = "valid_pointer"
    THEN IF f.kind = "uint64" /\ value # 0 /\ ~PodValid(value) THEN 0 ELSE value
    ELSE IF TagType(f.tag) = "char_array" /\ f.kind = "bytes"
    THEN cleanCharArray(value)
    ELSE value

typeHasPointers(T) == \E k \in 1 .. Len(T) : T[k].kind = "ptr"

(* pod.ReadT: proc.ReadBlob, then pod.ReadBlob: the pointer guard, the     *)
(* copy of the bytes, validateAndCleanPointers.                            *)
ReadT(in, T, addr) ==
    IF ~PodReadable(in, addr) THEN [err |-> "read failed", val |-> Zero(T)]
    ELSE IF typeHasPointers(T)
    THEN [err |-> "T contains pointers; not POD-safe", val |-> Zero(T)]
    ELSE [err |-> "",
          val |-> [n \in FieldNames(T) |->
                     processField(FieldOf(T, n), Foreign(in, addr)[n])]]

(* pod.ReadStruct into dest, field by field from field k. *)
RECURSIVE ReadStruct(_, _, _, _)
RECURSIVE ReadStructFields(_, _, _, _, _)
ReadStructFields(in, T, addr, dest, k) ==
    IF k > Len(T) THEN [err |-> "", val |-> dest]
    ELSE LET f == T[k]
             raw == Foreign(in, addr)[f.name]
             set(v) == ReadStructFields(in, T, addr, [dest EXCEPT ![f.name] = v], k + 1)
         IN IF f.kind # "ptr" THEN set(raw)
            ELSE IF ~TagContains(f.tag, "valid_pointer")
            THEN ReadStructFields(in, T, addr, dest, k + 1)
            ELSE IF raw = 0 THEN set(<<>>)
            ELSE IF ~PodValid(raw)
            THEN IF TagContains(f.tag, "err_failure")
                 THEN [err |-> "invalid pointer address", val |-> dest]
                 ELSE set(<<>>)
            ELSE LET sub == ReadStruct(in, Weapon, raw, Zero(Weapon))
                 IN IF sub.err # ""
                    THEN IF TagContains(f.tag, "err_failure")
                         THEN [err |-> "failed to read pointed struct", val |-> dest]
                         ELSE set(<<>>)
                    ELSE set(<<sub.val>>)

ReadStruct(in, T, addr, dest) ==
    IF ~PodReadable(in, addr)
    THEN [err |-> "failed to read struct memory", val |-> dest]
    ELSE ReadStructFields(in, T, addr, dest, 1)

PodInputs ==
    [type : {"PlayerPtr", "PlayerU64"},
     nameTag : {TagCharArray, TagSkipCharArray},
     ptrTag : {TagValidPointer, TagValidPointerStrict},
     name : [1 .. PdNameLen -> {0, 65, 66}],
     ptr : {0, PdBad, PdGood},
     rootOk : BOOLEAN,
     pointeeOk : BOOLEAN]

NoPodCall == [op |-> "none", err |-> "", prior |-> <<>>, val |-> <<>>]

InitPod ==
    /\ pdIn \in PodInputs
    /\ pdLast = NoPodCall
    /\ NotPdIdle

PodReadT ==
    /\ pdLast.op = "none"
    /\ LET r == ReadT(pdIn, PodTypeOf(pdIn), PdRoot)
       IN pdLast' = [op |-> "ReadT", err |-> r.err,
                     prior |-> Zero(PodTypeOf(pdIn)), val |-> r.val]
    /\ UNCHANGED <<pdIn, notPdVars>>

PodReadStruct ==
    /\ pdLast.op = "none"
    /\ LET r == ReadStruct(pdIn, PodTypeOf(pdIn), PdRoot, Zero(PodTypeOf(pdIn)))
       IN pdLast' = [op |-> "ReadStruct", err |-> r.err,
                     prior |-> Zero(PodTypeOf(pdIn)), val |-> r.val]
    /\ UNCHANGED <<pdIn, notPdVars>>

NextPod ==
    \/ PodReadT
    \/ PodReadStruct

SpecPod == InitPod /\ [][NextPod]_vars

----------------------------------------------------------------------------
(* C15: a valid_pointer field whose foreign value is non-zero and not a    *)
(* valid address is null after a lenient materialisation, which succeeds;  *)
(* with the strict tag the materialisation returns an error; and when a    *)
(* materialisation returns an error the destination is as it was before    *)
(* the call.                                                               *)
PodCalled == pdLast.op # "none"

PodStrict == TagContains(pdIn.ptrTag, "err_failure")

(* The call is one that looks at valid_pointer on a field of this kind:    *)
(* ReadT on uint64 fields, ReadStruct on Go pointer fields.                *)
PodFollows ==
    \/ pdLast.op = "ReadT" /\ pdIn.type = "PlayerU64"
    \/ pdLast.op = "ReadStruct" /\ pdIn.type = "PlayerPtr"

PodNull(v) == IF pdIn.type = "PlayerPtr" THEN v = <<>> ELSE v = 0

C15_LenientClearsStrictAborts ==
    PodCalled =>
        /\ (/\ pdIn.ptr = PdBad
            /\ pdIn.rootOk
            /\ ~PodStrict
            /\ PodFollows) =>
               (pdLast.err = "" /\ PodNull(pdLast.val.WeaponPtr))
        /\ (/\ pdIn.ptr = PdBad
            /\ pdIn.rootOk
            /\ PodStrict
            /\ pdLast.op = "ReadStruct"
            /\ PodFollows) => pdLast.err = "invalid pointer address"
        /\ pdLast.err # "" => pdLast.val = pdLast.prior

(* C16: ReadT on a record type with a pointer-typed valid_pointer field    *)
(* whose foreign value is a valid mapped address returns the record with   *)
(* that field pointing to the pointee read from that address.              *)
C16_ReadTFollowsPointer ==
    (/\ pdLast.op = "ReadT"
     /\ pdIn.type = "PlayerPtr"
     /\ pdIn.ptr = PdGood
     /\ pdIn.rootOk
     /\ pdIn.pointeeOk) =>
        /\ pdLast.err = ""
        /\ pdLast.val.WeaponPtr = << Foreign(pdIn, PdGood) >>

(* C17: after a successful materialisation a field whose tag list has      *)
(* char_array holds the foreign bytes up to the first zero byte and zeros  *)
(* after it; cleaning twice is cleaning once.                              *)
FirstZero(bytes) ==
    IF \E i \in 1 .. Len(bytes) : bytes[i] = 0
    THEN CHOOSE i \in 1 .. Len(bytes) :
            bytes[i] = 0 /\ \A j \in 1 .. i - 1 : bytes[j] # 0
    ELSE Len(bytes) + 1

Cleaned(bytes) == [i \in 1 .. Len(bytes) |-> IF i < FirstZero(bytes) THEN bytes[i] ELSE 0]

C17_CharArrayCleaned ==
    (PodCalled /\ pdLast.err = "") =>
        /\ pdLast.val.Name = Cleaned(pdIn.name)
        /\ cleanCharArray(cleanCharArray(pdIn.name)) = cleanCharArray(pdIn.name)

----------------------------------------------------------------------------
(* Offset views (ProcessBlob): absolute, relative and string reads *)

(* Longest data of a view, and largest maxLength passed to ReadNTS. *)
VwMaxLen == 3
VwMaxNts == 3

(* Widths of the typed reads (1, 2, 4, 8 bytes in the source), scaled to   *)
(* the address space of the model.                                         *)
VwWidths == {1, 2}

(* Bytes a view can hold: zero and a letter. *)
VwBytes == {0, 65}

NoViewCall == [op |-> "none", addr |-> 0, off |-> 0, size |-> 0, status |-> "", data |-> <<>>]

(* A view is made by NewProcessBlob from bytes read at baseAddress, so its *)
(* last byte lies inside the address space.                                *)
InitView ==
    /\ vwBase \in 0 .. MaxAddr
    /\ vwData \in UNION { [1 .. n -> VwBytes] : n \in 0 .. VwMaxLen }
    /\ vwBase + Len(vwData) <= MaxAddr
    /\ vwLast = NoViewCall
    /\ NotVwIdle

(* ProcessBlob.ReadMemory: the bounds test adds in unsigned 64-bit         *)
(* arithmetic; the slice expression panics when its bounds are not         *)
(* low <= high <= len(data).                                               *)
BlobReadMemory(base, data, addr, size) ==
    IF addr < base \/ U64Add(addr, size) > U64Add(base, Len(data))
    THEN [status |-> "address out of bounds", data |-> <<>>]
    ELSE LET offset == addr - base
             high == U64Add(offset, size)
         IN  IF offset > high \/ high > Len(data)
             THEN [status |-> "panic", data |-> <<>>]
             ELSE [status |-> "ok", data |-> SubSeq(data, offset + 1, high)]

(* ProcessBlob.ReadNTS. *)
BlobReadNTS(base, data, addr, maxLength) ==
    IF maxLength = 0 THEN [status |-> "ok", data |-> <<>>]
    ELSE LET r == BlobReadMemory(base, data, addr, maxLength)
         IN  IF r.status # "ok" THEN r
             ELSE IF \E i \in 1 .. Len(r.data) : r.data[i] = 0
                  THEN LET i == CHOOSE i \in 1 .. Len(r.data) :
                                    /\ r.data[i] = 0
                                    /\ \A j \in 1 .. i - 1 : r.data[j] # 0
                       IN  [status |-> "ok", data |-> SubSeq(r.data, 1, i - 1)]
                  ELSE r

(* ReadUINT8 .. ReadUINT64(addr). *)
ViewRead(addr, w) ==
    /\ vwLast' = [op |-> "read", addr |-> addr, off |-> 0, size |-> w]
                    @@ BlobReadMemory(vwBase, vwData, addr, w)
    /\ UNCHANGED <<vwBase, vwData, notVwVars>>

(* OffsetUINT8 .. OffsetUINT64(offset): addr := baseaddress + offset. *)
ViewOffset(off, w) ==
    /\ vwLast' = [op |-> "offset", addr |-> U64Add(vwBase, off), off |-> off, size |-> w]
                    @@ BlobReadMemory(vwBase, vwData, U64Add(vwBase, off), w)
    /\ UNCHANGED <<vwBase, vwData, notVwVars>>

(* ReadNTS(addr, maxLength). *)
ViewReadNTS(addr, maxLength) ==
    /\ vwLast' = [op |-> "nts", addr |-> addr, off |-> 0, size |-> maxLength]
                    @@ BlobReadNTS(vwBase, vwData, addr, maxLength)
    /\ UNCHANGED <<vwBase, vwData, notVwVars>>

NextView ==
    \/ \E addr \in 0 .. MaxAddr, w \in VwWidths : ViewRead(addr, w)
    \/ \E off \in 0 .. MaxAddr, w \in VwWidths : ViewOffset(off, w)
    \/ \E addr \in 0 .. MaxAddr, maxLength \in 0 .. VwMaxNts : ViewReadNTS(addr, maxLength)

SpecView == InitView /\ [][NextView]_vars

(* The address a read is meant for, as a number that does not wrap. *)
ViewTarget == IF vwLast.op = "offset" THEN vwBase + vwLast.off ELSE vwLast.addr

(* C18: an absolute read of W bytes at addr, or a relative read taken as   *)
(* addr = B + o, succeeds iff B <= addr and addr + W <= B + len(D) with    *)
(* the sums not wrapping; every other read returns the out-of-view error,  *)
(* never a wrapped result or a fault.                                      *)
C18_ViewBoundsNoWrap ==
    vwLast.op \in {"read", "offset"} =>
        IF vwBase <= ViewTarget /\ ViewTarget + vwLast.size <= vwBase + Len(vwData)
        THEN /\ vwLast.status = "ok"
             /\ vwLast.data = SubSeq(vwData, ViewTarget - vwBase + 1,
                                     ViewTarget - vwBase + vwLast.size)
        ELSE vwLast.status = "address out of bounds"

(* The bytes of the view from addr on, at most max of them. *)
ViewFrom(addr, max) ==
    LET first == addr - vwBase + 1
        last == IF first + max - 1 > Len(vwData) THEN Len(vwData) ELSE first + max - 1
    IN  SubSeq(vwData, first, last)

(* C19: for every readable addr and every max, ReadNTS returns the empty   *)
(* string iff the first byte at addr is zero; otherwise it returns the     *)
(* bytes before the first zero byte within the first max bytes, or all max *)
(* bytes when none of them is zero.                                        *)
C19_ReadNTSPrefix ==
    (/\ vwLast.op = "nts"
     /\ vwBase <= vwLast.addr
     /\ vwLast.addr < vwBase + Len(vwData)) =>
        LET avail == ViewFrom(vwLast.addr, vwLast.size)
            zeros == { i \in 1 .. Len(avail) : avail[i] = 0 }
        IN  /\ (vwLast.data = <<>>) <=> (vwData[vwLast.addr - vwBase + 1] = 0)
            /\ zeros # {} =>
                 /\ vwLast.status = "ok"
                 /\ \E i \in zeros : /\ \A j \in zeros : i <= j
                                     /\ vwLast.data = SubSeq(avail, 1, i - 1)
            /\ (zeros = {} /\ Len(avail) = vwLast.size) =>
                 /\ vwLast.status = "ok"
                 /\ vwLast.data = avail

----------------------------------------------------------------------------
(* search.Search: recursive walk over a pointer graph *)

(* Largest MaxStructSize, MaxDepth and MinAlignment given to Search, the   *)
(* size of the mapped region, and the number of results the model records  *)
(* (further appends are not recorded).                                     *)
SrMaxSize == 4
SrMaxDepth == 2
SrMaxAlign == 2
SrMemLen == 4
SrMaxResults == 3

(* Width of a pointer and the alignment at which one is looked for (8 in   *)
(* the source), scaled to the address space of the model.                  *)
SrPtrSize == 2

(* First address of the mapped region. *)
SrLo == AddrLow + 2

(* proc.ReadMemory(addr, size): the whole range has to be readable. *)
SrReadMemory(addr, size) ==
    IF \A i \in 0 .. size - 1 : addr + i \in DOMAIN srMem
    THEN [ok |-> TRUE, data |-> [i \in 1 .. size |-> srMem[addr + i - 1]]]
    ELSE [ok |-> FALSE, data |-> <<>>]

(* proc.IsValidAddress(ptrVal). *)
SrIsValidAddress(ptrVal) == ptrVal \in DOMAIN srMem

(* s.SearchFor(data[offset:]): the target is the one byte 9. *)
SearchFor(data, offset) == Len(data) >= offset + 1 /\ data[offset + 1] = 9

(* The uint64 read at &data[offset]: little-endian decoding. *)
RECURSIVE PtrAt(_, _, _)
PtrAt(data, offset, n) ==
    IF n = 0 THEN 0
    ELSE data[offset + 1] + AddrMod * PtrAt(data, offset + 1, n - 1)

(* Return from the innermost activation of searchRecursive; Search itself  *)
(* returns when the outermost one does.                                    *)
srReturn(stack) ==
    /\ srStack' = stack
    /\ srPc' = IF Len(stack) = 0 THEN "done" ELSE "run"

InitSearch ==
    /\ srCfg \in [maxStructSize : {2, SrMaxSize},
                  maxDepth : -1 .. SrMaxDepth,
                  minAlignment : 0 .. SrMaxAlign,
                  searchFor : BOOLEAN,
                  base : {SrLo, SrLo + 2, AddrLow - 1}]
    /\ srMem \in [SrLo .. SrLo + SrMemLen - 1 -> {0, SrLo, 9}]
    /\ srPc = "start"
    /\ srStack = <<>>
    /\ srVisited = {}
    /\ srResults = <<>>
    /\ srReadDepths = {}
    /\ srErr = ""
    /\ NotSrIdle

(* Search up to the first call of searchRecursive. *)
SearchEnter ==
    /\ srPc = "start"
    /\ IF ~srCfg.searchFor
       THEN /\ srPc' = "done"
            /\ srErr' = "no search target specified"
            /\ UNCHANGED srStack
       ELSE /\ srPc' = "run"
            /\ srStack' = << [addr |-> srCfg.base, depth |-> 0, path |-> <<>>,
                              pc |-> "entry", offset |-> 0, pass |-> 0] >>
            /\ UNCHANGED srErr
    /\ UNCHANGED <<srCfg, srMem, srVisited, srResults, srReadDepths, notSrVars>>

(* searchRecursive from its entry to the head of the loop. *)
SearchCall ==
    /\ srPc = "run"
    /\ LET f == srStack[Len(srStack)]
           rest == SubSeq(srStack, 1, Len(srStack) - 1)
       IN  /\ f.pc = "entry"
           /\ IF f.depth > srCfg.maxDepth \/ f.addr \in srVisited
              THEN /\ srReturn(rest)
                   /\ UNCHANGED <<srVisited, srReadDepths>>
              ELSE /\ srVisited' = srVisited \cup {f.addr}
                   /\ srReadDepths' = srReadDepths \cup {f.depth}
                   /\ IF ~SrReadMemory(f.addr, srCfg.maxStructSize).ok
                      THEN srReturn(rest)
                      ELSE /\ srStack' = Append(rest, [f EXCEPT !.pc = "loop"])
                           /\ UNCHANGED srPc
    /\ UNCHANGED <<srCfg, srMem, srResults, srErr, notSrVars>>

(* One pass of the loop over offsets: test, match, pointer, step. The      *)
(* activation's pass field is the parity of the passes made, so that a     *)
(* pass is a step even when it leaves offset where it was.                 *)
SearchIter ==
    /\ srPc = "run"
    /\ LET f == srStack[Len(srStack)]
           rest == SubSeq(srStack, 1, Len(srStack) - 1)
           data == SrReadMemory(f.addr, srCfg.maxStructSize).data
           newPath == Append(f.path, f.offset)
           stepped == [f EXCEPT !.offset = f.offset + srCfg.minAlignment,
                                !.pass = 1 - f.pass]
           ptrVal == PtrAt(data, f.offset, SrPtrSize)
       IN  /\ f.pc = "loop"
           /\ IF f.offset >= srCfg.maxStructSize
                 \/ f.offset + srCfg.minAlignment > Len(data)
              THEN /\ srReturn(rest)
                   /\ UNCHANGED srResults
              ELSE /\ srResults' = IF SearchFor(data, f.offset) /\ Len(srResults) < SrMaxResults
                                   THEN Append(srResults, newPath)
                                   ELSE srResults
                   /\ srStack' =
                        IF /\ f.offset % SrPtrSize = 0
                           /\ f.depth < srCfg.maxDepth
                           /\ f.offset + SrPtrSize <= Len(data)
                           /\ ptrVal # 0
                           /\ SrIsValidAddress(ptrVal)
                        THEN rest \o << stepped,
                                        [addr |-> ptrVal, depth |-> f.depth + 1,
                                         path |-> newPath, pc |-> "entry", offset |-> 0,
                                         pass |-> 0] >>
                        ELSE Append(rest, stepped)
                   /\ UNCHANGED srPc
    /\ UNCHANGED <<srCfg, srMem, srVisited, srReadDepths, srErr, notSrVars>>

NextSearch ==
    \/ SearchEnter
    \/ SearchCall
    \/ SearchIter

SpecSearch == InitSearch /\ [][NextSearch]_vars

(* Search runs on the caller's goroutine, which keeps being scheduled. *)
SpecSearchFair == SpecSearch /\ WF_vars(NextSearch)

(* C20: Search terminates for every root, every finite memory (cyclic and  *)
(* self-referential pointer graphs included) and every MaxStructSize,      *)
(* MaxDepth and MinAlignment, and never reads an address at a recursion    *)
(* depth greater than MaxDepth.                                            *)
C20_SearchTerminates ==
    /\ <>(srPc = "done")
    /\ [](\A d \in srReadDepths : d <= srCfg.maxDepth)

----------------------------------------------------------------------------
(* search.Search on pointer graphs with more than one route to a record *)

(* The size of the mapped region. *)
SgMemLen == 12

(* MaxStructSize: a window of two pointer slots. *)
SgWindow == 2 * SrPtrSize

(* The addresses of the pointer slots of the region. *)
SgSlots == { SrLo + SrPtrSize * k : k \in 0 .. (SgMemLen \div SrPtrSize) - 1 }

(* What a slot holds in its low byte: null, the target byte (an address of *)
(* the region as well), or the address of a record of the region.          *)
SgSlotVals == {0, 9, SrLo + 4, SrLo + 6, SrLo + 8}

(* The region with the given low bytes in its slots and zero elsewhere. *)
SgMem(slots) ==
    [a \in SrLo .. SrLo + SgMemLen - 1 |-> IF a \in SgSlots THEN slots[a] ELSE 0]

InitSearchGraph ==
    /\ srCfg \in [maxStructSize : {SgWindow},
                  maxDepth : 1 .. SrMaxDepth,
                  minAlignment : {SrPtrSize},
                  searchFor : {TRUE},
                  base : {SrLo}]
    /\ srMem \in { SgMem(slots) : slots \in [SgSlots -> SgSlotVals] }
    /\ srPc = "start"
    /\ srStack = <<>>
    /\ srVisited = {}
    /\ srResults = <<>>
    /\ srReadDepths = {}
    /\ srErr = ""
    /\ NotSrIdle

SpecSearchGraph == InitSearchGraph /\ [][NextSearch]_vars

(* The addresses one hop from addr: the valid non-zero pointers in the     *)
(* aligned slots of its window, none when the window cannot be read.       *)
SgHops(addr) ==
    LET r == SrReadMemory(addr, srCfg.maxStructSize)
    IN  IF ~r.ok THEN {}
        ELSE LET slots == { o \in 0 .. srCfg.maxStructSize - SrPtrSize : o % SrPtrSize = 0 }
                 ptrs == { PtrAt(r.data, off, SrPtrSize) : off \in slots }
             IN  { ptrVal \in ptrs : ptrVal # 0 /\ SrIsValidAddress(ptrVal) }

(* The addresses at most n hops from the root. *)
RECURSIVE SgWithin(_)
SgWithin(n) ==
    IF n = 0 THEN {srCfg.base}
    ELSE LET near == SgWithin(n - 1)
         IN  near \cup UNION { SgHops(a) : a \in near }

(* The address a path of offsets leads to from the root, 0 when a hop of   *)
(* it cannot be made.                                                      *)
RECURSIVE SgFollow(_, _, _)
SgFollow(addr, path, n) ==
    IF n > Len(path) - 1 THEN addr
    ELSE LET r == SrReadMemory(addr, srCfg.maxStructSize)
         IN  IF ~r.ok \/ path[n] + SrPtrSize > Len(r.data) THEN 0
             ELSE SgFollow(PtrAt(r.data, path[n], SrPtrSize), path, n + 1)

(* C30: when Search has returned, every address at most MaxDepth hops from *)
(* the root through aligned in-window slots holding valid non-zero         *)
(* pointers has been visited, and (no result having been dropped) every    *)
(* match in the readable window of such an address is reported with a path *)
(* of offsets that leads to it.                                            *)
C30_SearchComplete ==
    (srPc = "done" /\ srErr = "") =>
        \A a \in SgWithin(srCfg.maxDepth) :
            /\ a \in srVisited
            /\ LET r == SrReadMemory(a, srCfg.maxStructSize)
               IN  (r.ok /\ Len(srResults) < SrMaxResults) =>
                     \A off \in 0 .. srCfg.maxStructSize - 1 :
                        (off % srCfg.minAlignment = 0 /\ SearchFor(r.data, off)) =>
                            \E k \in 1 .. Len(srResults) :
                               /\ srResults[k][Len(srResults[k])] = off
                               /\ SgFollow(srCfg.base, srResults[k], 1) = a

----------------------------------------------------------------------------
(* The mutex of a live handle: LinuxProcess.mu *)

(* Goroutines calling into one handle, and the regions Save and the scans  *)
(* go through.                                                             *)
MxThreads == {1, 2}
MxMaxRegions == 1

(* A call is the sequence of its steps on the mutex and of its blocking    *)
(* calls: "L" is p.mu.Lock(), "U" p.mu.Unlock() (deferred or not), "I" a   *)
(* syscall to the target or a file-system call. A function is the set of   *)
(* the sequences its return paths make. Logging is left out.               *)
MxCat(A, B) == { a \o b : a \in A, b \in B }

(* UpdateMemoryMap: Lock, deferred Unlock; pid == 0 returns, else          *)
(* ReadMemoryMap reads /proc/<pid>/maps before the function returns.       *)
UpdateMemoryMapPaths == { <<"L", "U">>, <<"L", "I", "U">> }

(* Open with UpdateMemoryMap called while p.mu is still held. *)
OpenPathsHolding ==
    { <<"I">> } \cup
    { <<"I", "L">> \o u \o <<"U">> : u \in UpdateMemoryMapPaths }

(* Open: os.Stat; p.pid set between Lock and Unlock; UpdateMemoryMap. *)
OpenPaths == { <<"I">> } \cup MxCat({ <<"I", "L", "U">> }, UpdateMemoryMapPaths)

(* Close, GetPID, IsValidAddress: Lock and deferred Unlock. *)
DeferPaths == { <<"L", "U">> }

(* GetMemoryMap: Unlock on the error return and after the copy. *)
GetMemoryMapPaths == { <<"L", "U">> }

(* ReadMemory: pid == 0 returns; validation between Lock and Unlock;       *)
(* process_vm_readv after the Unlock.                                      *)
ReadMemoryPaths == { <<>>, <<"L", "U">>, <<"L", "U", "I">> }

(* WriteMemory: three error returns, each after an Unlock; then            *)
(* process_vm_writev.                                                      *)
WriteMemoryPaths == { <<"L", "U">>, <<"L", "U", "I">> }

(* The region loop of Save over n regions: timeout return, skip, read      *)
(* error, or read and os.WriteFile; the last Lock and Unlock for the log.  *)
RECURSIVE SaveRegionPaths(_)
SaveRegionPaths(n) ==
    IF n = 0 THEN { <<"L", "U">> }
    ELSE { <<>> } \cup
         MxCat({ <<>> } \cup ReadMemoryPaths \cup { <<"L", "U", "I", "I">> },
               SaveRegionPaths(n - 1))

(* Save: MkdirAll; pid under the lock; findProcessByPID and metadata.json  *)
(* after the Unlock; UpdateMemoryMap; the copy of p.mm under the lock;     *)
(* process_memory_map.json; the region loop.                               *)
SavePaths ==
    LET opened == { <<"I", "L", "U", "I", "I">> }
        updated == MxCat(opened, UpdateMemoryMapPaths)
        copied == MxCat(updated, { <<"L", "U", "I">> })
    IN  { <<"I">>, <<"I", "L", "U">> } \cup opened \cup updated \cup copied
        \cup UNION { MxCat(copied, SaveRegionPaths(n)) : n \in 0 .. MxMaxRegions }

(* Scan, and ScanParallel with its workers' reads: GetMemoryMap, then      *)
(* ReadMemory for the readable regions.                                    *)
RECURSIVE ScanReadPaths(_)
ScanReadPaths(n) ==
    IF n = 0 THEN { <<>> }
    ELSE { <<>> } \cup MxCat(ReadMemoryPaths, ScanReadPaths(n - 1))

ScanPaths == MxCat(GetMemoryMapPaths, ScanReadPaths(MxMaxRegions))

MxOps == {"Open", "Close", "GetPID", "UpdateMemoryMap", "IsValidAddress",
          "GetMemoryMap", "ReadMemory", "WriteMemory", "Save", "ScanParallel"}

MxPaths(op) ==
    CASE op = "Open" -> OpenPaths
      [] op = "UpdateMemoryMap" -> UpdateMemoryMapPaths
      [] op = "GetMemoryMap" -> GetMemoryMapPaths
      [] op = "ReadMemory" -> ReadMemoryPaths
      [] op = "WriteMemory" -> WriteMemoryPaths
      [] op = "Save" -> SavePaths
      [] op = "ScanParallel" -> ScanPaths
      [] OTHER -> DeferPaths

InitMutex ==
    /\ mxOwner = 0
    /\ mxOp = [t \in MxThreads |-> ""]
    /\ mxCont = [t \in MxThreads |-> <<>>]
    /\ NotMxIdle

MxAt(t, step) == mxOp[t] # "" /\ mxCont[t] # <<>> /\ Head(mxCont[t]) = step

(* A goroutine calls a method of the handle; the path is the one its       *)
(* conditions will select.                                                 *)
MxCall(t) ==
    /\ mxOp[t] = ""
    /\ \E op \in MxOps : \E path \in MxPaths(op) :
         /\ mxOp' = [mxOp EXCEPT ![t] = op]
         /\ mxCont' = [mxCont EXCEPT ![t] = path]
    /\ UNCHANGED <<mxOwner, notMxVars>>

(* p.mu.Lock(): blocks while the mutex is held, by anyone. *)
MxLock(t) ==
    /\ MxAt(t, "L")
    /\ mxOwner = 0
    /\ mxOwner' = t
    /\ mxCont' = [mxCont EXCEPT ![t] = Tail(mxCont[t])]
    /\ UNCHANGED <<mxOp, notMxVars>>

(* p.mu.Unlock() *)
MxUnlock(t) ==
    /\ MxAt(t, "U")
    /\ mxOwner' = 0
    /\ mxCont' = [mxCont EXCEPT ![t] = Tail(mxCont[t])]
    /\ UNCHANGED <<mxOp, notMxVars>>

(* A syscall or file-system call returns. *)
MxIo(t) ==
    /\ MxAt(t, "I")
    /\ mxCont' = [mxCont EXCEPT ![t] = Tail(mxCont[t])]
    /\ UNCHANGED <<mxOwner, mxOp, notMxVars>>

(* The call returns. *)
MxReturn(t) ==
    /\ mxOp[t] # ""
    /\ mxCont[t] = <<>>
    /\ mxOp' = [mxOp EXCEPT ![t] = ""]
    /\ UNCHANGED <<mxOwner, mxCont, notMxVars>>

NextMutex ==
    \/ \E t \in MxThreads : MxCall(t)
    \/ \E t \in MxThreads : MxLock(t)
    \/ \E t \in MxThreads : MxUnlock(t)
    \/ \E t \in MxThreads : MxIo(t)
    \/ \E t \in MxThreads : MxReturn(t)

SpecMutex == InitMutex /\ [][NextMutex]_vars

(* A goroutine inside a call keeps running; sync.Mutex hands the mutex to  *)
(* a waiter that has been passed over (starvation mode), so a Lock that is *)
(* possible again and again is eventually made.                            *)
SpecMutexFair ==
    /\ SpecMutex
    /\ \A t \in MxThreads :
         /\ SF_vars(MxLock(t))
         /\ WF_vars(MxUnlock(t) \/ MxIo(t) \/ MxReturn(t))

(* C24: in every operation of the live back end the handle's mutex is      *)
(* never held while a cross-process syscall, a file-system call or other   *)
(* blocking I/O is in progress.                                            *)
C24_NoIoUnderMutex ==
    \A t \in MxThreads : MxAt(t, "I") => mxOwner # t

----------------------------------------------------------------------------
(* The three pointer-chain resolvers over the same memory:                 *)
(* LinuxProcess.ReadPointerChain, ProcessBlob.ReadPointerChain and         *)
(* process.ReadPath.  An address holds one pointer-sized word.             *)

RsMemLen == 3
RsMaxOffsets == 2
RsMaxSize == 2

(* const ptrSize = 8, in words. *)
RsPtrSize == 1

RsLo == AddrLow + 1

(* The region is one readable mapping and, for ProcessBlob, the blob's data. *)
RsMap == << MemoryMapItem(RsLo, RsMemLen + RsMaxSize, PermsR) >>

(* Null, in-region and out-of-region pointer values. *)
RsPtrVals == {0, RsLo, RsLo + 1, AddrHigh + 1}

RsOffsetVals == {0, 1}

(* The word process_vm_readv returns for addr. *)
RsStored(mem, addr) ==
    IF addr >= RsLo /\ addr < RsLo + Len(mem) THEN mem[addr - RsLo + 1] ELSE 0

RsWalk(derefs, ptrs, final, err) ==
    [derefs |-> derefs, ptrs |-> ptrs, final |-> final, err |-> err]

(* LinuxProcess.ReadPointerChain, lines 35-57. *)
RECURSIVE LinuxChainLoop(_, _, _, _, _, _, _)
LinuxChainLoop(mem, size, offsets, i, current, derefs, ptrs) ==
    IF ChainLoopContinues(i, offsets)
    THEN LET addr == U64Add(current, offsets[i + 1])
             ptr == ReadPOINTER2(ChainPid, addr, RsMap, RsStored(mem, addr), TRUE)
             err == ChainHopError(ptr, RsMap)
         IN  IF err # ""
             THEN RsWalk(Append(derefs, addr), Append(ptrs, ptr), <<>>, err)
             ELSE LinuxChainLoop(mem, size, offsets, i + 1, ptr,
                                 Append(derefs, addr), Append(ptrs, ptr))
    ELSE LET start == U64Add(current, offsets[Len(offsets)])
         IN  RsWalk(derefs, ptrs, <<start>>,
                    IF ReadBlob(ChainPid, start, size, RsMap, TRUE) = <<>>
                    THEN "blob" ELSE "")

(* LinuxProcess.ReadPointerChain. *)
LinuxReadPointerChain(mem, base, size, offsets) ==
    IF Len(offsets) = 0
    THEN RsWalk(<<>>, <<>>, <<base>>,
                IF ReadBlob(ChainPid, base, size, RsMap, TRUE) = <<>>
                THEN "blob" ELSE "")
    ELSE LinuxChainLoop(mem, size, offsets, 0, base, <<>>, <<>>)

(* ProcessBlob.ReadPOINTER: the word at addr, or an error. *)
BlobReadPOINTER(mem, addr) ==
    IF addr = 0 THEN [status |-> "invalid address: 0x0", ptr |-> 0]
    ELSE LET r == BlobReadMemory(RsLo, mem, addr, RsPtrSize)
         IN  IF r.status # "ok" THEN [status |-> r.status, ptr |-> 0]
             ELSE [status |-> "ok", ptr |-> r.data[1]]

(* ProcessBlob.ReadBlob: the status of the read of size words at addr. *)
BlobReadBlob(mem, addr, size) ==
    IF size = 0 THEN "ok" ELSE BlobReadMemory(RsLo, mem, addr, size).status

(* ProcessBlob.ReadPointerChain: for i, offset := range offsets reads the  *)
(* pointer at currentAddr and sets currentAddr = ptr + offset; the blob is *)
(* read at currentAddr after the loop.                                     *)
RECURSIVE BlobChainLoop(_, _, _, _, _, _, _)
BlobChainLoop(mem, size, offsets, i, currentAddr, derefs, ptrs) ==
    IF ChainLoopThroughLast(i, offsets)
    THEN LET r == BlobReadPOINTER(mem, currentAddr)
         IN  IF r.status # "ok"
             THEN RsWalk(Append(derefs, currentAddr), ptrs, <<>>, r.status)
             ELSE BlobChainLoop(mem, size, offsets, i + 1,
                                U64Add(r.ptr, offsets[i + 1]),
                                Append(derefs, currentAddr), Append(ptrs, r.ptr))
    ELSE RsWalk(derefs, ptrs, <<currentAddr>>,
                IF BlobReadBlob(mem, currentAddr, size) = "ok" THEN "" ELSE "blob")

BlobReadPointerChain(mem, base, size, offsets) ==
    BlobChainLoop(mem, size, offsets, 0, base, <<>>, <<>>)

(* process.Read through Process.ReadMemory of the live handle. *)
PathRead(addr) == ReadMemoryStatus(ChainPid, addr, RsMap, TRUE)

(* process.ReadPath: a hop fails on a read error or a zero pointer; the    *)
(* pointer is not validated against the map before it is used.             *)
RECURSIVE ReadPathLoop(_, _, _, _, _, _)
ReadPathLoop(mem, offsets, i, currentAddr, derefs, ptrs) ==
    IF ChainLoopContinues(i, offsets)
    THEN LET ptrAddr == U64Add(currentAddr, offsets[i + 1])
             ptrVal == RsStored(mem, ptrAddr)
         IN  IF PathRead(ptrAddr) # "ok"
             THEN RsWalk(Append(derefs, ptrAddr), ptrs, <<>>, "read")
             ELSE IF ptrVal = 0
             THEN RsWalk(Append(derefs, ptrAddr), Append(ptrs, ptrVal), <<>>, "null")
             ELSE ReadPathLoop(mem, offsets, i + 1, ptrVal,
                               Append(derefs, ptrAddr), Append(ptrs, ptrVal))
    ELSE LET finalOffset == IF Len(offsets) > 0 THEN offsets[Len(offsets)] ELSE 0
             finalAddr == U64Add(currentAddr, finalOffset)
         IN  RsWalk(derefs, ptrs, <<finalAddr>>,
                    IF PathRead(finalAddr) = "ok" THEN "" ELSE "final")

ReadPath(mem, base, offsets) == ReadPathLoop(mem, offsets, 0, base, <<>>, <<>>)

InitResolve ==
    /\ rsMem \in [1 .. RsMemLen -> RsPtrVals]
    /\ rsBase \in {RsLo, RsLo + 1}
    /\ rsSize \in 1 .. RsMaxSize
    /\ rsOffsets \in SeqsUpTo(RsOffsetVals, 0, RsMaxOffsets)
    /\ rsLinux = <<>>
    /\ rsBlob = <<>>
    /\ rsPath = <<>>
    /\ NotRsIdle

RunLinux ==
    /\ rsLinux = <<>>
    /\ rsLinux' = <<LinuxReadPointerChain(rsMem, rsBase, rsSize, rsOffsets)>>
    /\ UNCHANGED <<rsMem, rsBase, rsSize, rsOffsets, rsBlob, rsPath, notRsVars>>

RunBlob ==
    /\ rsBlob = <<>>
    /\ rsBlob' = <<BlobReadPointerChain(rsMem, rsBase, rsSize, rsOffsets)>>
    /\ UNCHANGED <<rsMem, rsBase, rsSize, rsOffsets, rsLinux, rsPath, notRsVars>>

RunPath ==
    /\ rsPath = <<>>
    /\ rsPath' = <<ReadPath(rsMem, rsBase, rsOffsets)>>
    /\ UNCHANGED <<rsMem, rsBase, rsSize, rsOffsets, rsLinux, rsBlob, notRsVars>>

NextResolve == RunLinux \/ RunBlob \/ RunPath

SpecResolve == InitResolve /\ [][NextResolve]_vars

(* C29: when the three resolvers have run on the same memory, base and     *)
(* offsets, and every pointer any of them read at a hop is non-zero and    *)
(* valid per the map, they dereferenced the same sequence of addresses,    *)
(* k-1 of them for k >= 1 offsets with the first at base + offsets[0],     *)
(* and read the final value at the same address.                           *)
RsHopsGood(w) ==
    \A n \in 1 .. Len(w.ptrs) : w.ptrs[n] # 0 /\ ValidPerMap(w.ptrs[n], RsMap)

C29_ResolversAgree ==
    (/\ rsLinux # <<>> /\ rsBlob # <<>> /\ rsPath # <<>>
     /\ RsHopsGood(rsLinux[1]) /\ RsHopsGood(rsBlob[1]) /\ RsHopsGood(rsPath[1])
     /\ rsLinux[1].err = "" /\ rsBlob[1].err = "" /\ rsPath[1].err = "") =>
        /\ rsLinux[1].derefs = rsBlob[1].derefs
        /\ rsLinux[1].derefs = rsPath[1].derefs
        /\ rsLinux[1].final = rsBlob[1].final
        /\ rsLinux[1].final = rsPath[1].final
        /\ Len(rsOffsets) >= 1 =>
             /\ Len(rsLinux[1].derefs) = Len(rsOffsets) - 1
             /\ Len(rsOffsets) >= 2 =>
                  rsLinux[1].derefs[1] = U64Add(rsBase, rsOffsets[1])

----------------------------------------------------------------------------
(* Batch reads: WindowsProcess.ReadBlobs (grouped by region),              *)
(* WindowsProcess.ReadBlobsX (one goroutine per request) and               *)
(* ProcessDump.ReadBlobs (serial).                                         *)

RbMaxList == 3
RbMaxSize == 2

(* const defaultReadBlobsMDOP = 8 *)
RbMdop == 8

(* Two readable regions, the second ending just below the top of the       *)
(* address space.                                                          *)
RbMap == << MemoryMapItem(3, 2, PermsR), MemoryMapItem(MaxAddr - 2, 2, PermsR) >>

(* The two addresses of the first region and the last of the second. *)
RbAddrs == {3, 4, MaxAddr - 1}

RbVariants == {"grouped", "x", "dump"}

(* The byte the target holds at an address. *)
RbByte(a) == a

(* The bytes a successful read of size bytes at start returns. *)
RbData(start, size) == [n \in 1 .. size |-> RbByte(U64Add(start, n - 1))]

(* The zero value of ReadBlobsResult. *)
RbZero == [Address |-> 0, Blob |-> <<>>, Err |-> ""]

RbResult(addr, blob, err) == [Address |-> addr, Blob |-> blob, Err |-> err]

(* NewProcessBlob(addr, data). *)
RbBlob(addr, data) == << [Base |-> addr, data |-> data] >>

(* The offset that always takes the head of the combined data. *)
OffsetAtGroupStart(addr, start) == 0

(* offsetInCombinedData := uint64(req.Address - g.CombinedReadStart) *)
OffsetInCombinedData(addr, start) == (addr - start + AddrMod) % AddrMod

(* Phase 1, lines 293-347: the outcome of validating request addr; "" when *)
(* the request joins a group.                                              *)
GroupingError(addr, size, mm) ==
    LET regionItem == IsValidAddress2(addr, mm)
    IN  IF regionItem = <<>> THEN "ErrAddressNotInAnyValidRegion"
        ELSE LET regionStart == regionItem[1].Address
                 regionEnd == IF regionItem[1].Size = 0 THEN regionStart
                              ELSE (regionStart + regionItem[1].Size + AddrMod - 1) % AddrMod
                 reqEnd == (addr + size + AddrMod - 1) % AddrMod
             IN  IF addr < regionStart \/ addr > regionEnd THEN "inconsistent"
                 ELSE IF reqEnd < addr /\ size > 0 THEN "ErrAddressCalculationOverflow"
                 ELSE IF reqEnd > regionEnd THEN "ErrRequestExceedsRegionBounds"
                 ELSE ""

(* Lines 349-372: the request joins the group of its region. *)
AddToGroup(groups, i, addr, size, mm) ==
    LET key == IsValidAddress2(addr, mm)[1].Address
        reqEnd == (addr + size + AddrMod - 1) % AddrMod
        group == IF key \in DOMAIN groups THEN groups[key]
                 ELSE [start |-> addr, end |-> reqEnd, reqs |-> <<>>]
        joined == [start |-> IF addr < group.start THEN addr ELSE group.start,
                   end |-> IF reqEnd > group.end THEN reqEnd ELSE group.end,
                   reqs |-> Append(group.reqs, i)]
    IN  [k \in DOMAIN groups \cup {key} |-> IF k = key THEN joined ELSE groups[k]]

(* The record a goroutine of the grouped variant assigns for request i. *)
GroupedOutcome(w, i, list, size) ==
    LET addr == list[i]
    IN  IF w.status # "ok" THEN RbResult(addr, <<>>, w.status)
        ELSE IF addr < w.start \/ (addr + size + AddrMod - 1) % AddrMod > w.end
        THEN RbResult(addr, <<>>, "ErrRequestAddrOutOfGroup")
        ELSE LET offset == OffsetInCombinedData(addr, w.start)
                 data == w.blob[1].data
             IN  IF offset + size > Len(data)
                 THEN RbResult(addr, <<>>, "ErrSliceOutOfBounds")
                 ELSE RbResult(addr, RbBlob(addr, SubSeq(data, offset + 1, offset + size)), "")

(* WindowsProcess.ReadBlob: nil for size zero, else the blob or the error. *)
WinReadBlob(addr, size, ioOk) ==
    IF size = 0 THEN [status |-> "ok", blob |-> <<>>]
    ELSE IF ioOk THEN [status |-> "ok", blob |-> RbBlob(addr, RbData(addr, size))]
    ELSE [status |-> "read", blob |-> <<>>]

(* ProcessDump.ReadBlob: a blob over whatever ReadMemory returned. *)
DumpBlobAt(addr, size, ioOk) ==
    IF ioOk THEN [status |-> "ok", blob |-> RbBlob(addr, RbData(addr, size))]
    ELSE [status |-> "read", blob |-> <<>>]

(* The record ReadBlobsX and ProcessDump.ReadBlobs assign for request i:   *)
(* Address: addr, Blob: blob, Err: err.                                    *)
SingleOutcome(r, i, list) ==
    RbResult(list[i], r.blob, IF r.status = "ok" THEN "" ELSE r.status)

RbAssign(results, i, rec) == [results EXCEPT ![i] = rec]

RbLog(writes, i, rec) == [writes EXCEPT ![i] = Append(@, rec)]

RbWorker(reqs, start, end) ==
    [reqs |-> reqs, start |-> start, end |-> end, pc |-> "acquire",
     k |-> 1, status |-> "", blob |-> <<>>]

InitBlobs ==
    /\ rbVariant \in RbVariants
    /\ rbList \in SeqsUpTo(RbAddrs, 0, RbMaxList)
    /\ rbSize \in 0 .. RbMaxSize
    /\ rbPc = "call"
    /\ rbI = 0
    /\ rbResults = <<>>
    /\ rbWrites = [i \in 1 .. Len(rbList) |-> <<>>]
    /\ rbGroups = <<>>
    /\ rbPending = {}
    /\ rbWorkers = <<>>
    /\ rbSem = 0
    /\ NotRbIdle

(* The early returns and the allocation of results. *)
BlobsEnter ==
    /\ rbPc = "call"
    /\ IF rbVariant # "dump" /\ Len(rbList) = 0
       THEN /\ rbResults' = <<>>
            /\ rbPc' = "done"
            /\ UNCHANGED <<rbWrites, rbPending>>
       ELSE IF rbVariant = "grouped" /\ rbSize = 0
       THEN /\ rbResults' = [i \in 1 .. Len(rbList) |->
                                RbResult(rbList[i], <<>>, "ErrBlobReadSizeIsZero")]
            /\ rbWrites' = [i \in 1 .. Len(rbList) |-> <<rbResults'[i]>>]
            /\ rbPc' = "done"
            /\ UNCHANGED rbPending
       ELSE /\ rbResults' = [i \in 1 .. Len(rbList) |-> RbZero]
            /\ rbPc' = CASE rbVariant = "grouped" -> "group"
                         [] rbVariant = "x" -> "spawn"
                         [] OTHER -> "serial"
            /\ rbPending' = IF rbVariant = "x" THEN 1 .. Len(rbList) ELSE {}
            /\ UNCHANGED rbWrites
    /\ UNCHANGED <<rbVariant, rbList, rbSize, rbI, rbGroups, rbWorkers, rbSem, notRbVars>>

(* ProcessDump.ReadBlobs: one iteration of the serial loop, or its end. *)
BlobsSerial ==
    /\ rbPc = "serial"
    /\ IF rbI < Len(rbList)
       THEN \E ioOk \in BOOLEAN :
              LET i == rbI + 1
                  rec == SingleOutcome(DumpBlobAt(rbList[i], rbSize, ioOk), i, rbList)
              IN  /\ rbResults' = RbAssign(rbResults, i, rec)
                  /\ rbWrites' = RbLog(rbWrites, i, rec)
                  /\ rbI' = i
                  /\ UNCHANGED rbPc
       ELSE /\ rbPc' = "done"
            /\ UNCHANGED <<rbResults, rbWrites, rbI>>
    /\ UNCHANGED <<rbVariant, rbList, rbSize, rbGroups, rbPending, rbWorkers, rbSem, notRbVars>>

(* WindowsProcess.ReadBlobs phase 1: one iteration of the grouping loop, or *)
(* its end.                                                                 *)
BlobsGroup ==
    /\ rbPc = "group"
    /\ IF rbI < Len(rbList)
       THEN LET i == rbI + 1
                err == GroupingError(rbList[i], rbSize, RbMap)
            IN  /\ rbI' = i
                /\ IF err # ""
                   THEN LET rec == RbResult(rbList[i], <<>>, err)
                        IN  /\ rbResults' = RbAssign(rbResults, i, rec)
                            /\ rbWrites' = RbLog(rbWrites, i, rec)
                            /\ UNCHANGED rbGroups
                   ELSE /\ rbGroups' = AddToGroup(rbGroups, i, rbList[i], rbSize, RbMap)
                        /\ UNCHANGED <<rbResults, rbWrites>>
                /\ UNCHANGED <<rbPc, rbPending>>
       ELSE /\ rbPc' = "spawn"
            /\ rbPending' = DOMAIN rbGroups
            /\ UNCHANGED <<rbResults, rbWrites, rbGroups, rbI>>
    /\ UNCHANGED <<rbVariant, rbList, rbSize, rbWorkers, rbSem, notRbVars>>

(* wg.Add(1); go func(...): the grouped variant ranges over a map, in any   *)
(* order, ReadBlobsX over the list in order.                                *)
BlobsSpawn ==
    /\ rbPc = "spawn"
    /\ \E key \in rbPending :
         /\ rbVariant = "x" => \A other \in rbPending : key <= other
         /\ LET w == IF rbVariant = "x"
                     THEN RbWorker(<<key>>, rbList[key], rbList[key])
                     ELSE RbWorker(rbGroups[key].reqs, rbGroups[key].start, rbGroups[key].end)
            IN  rbWorkers' = [k \in DOMAIN rbWorkers \cup {key} |->
                                 IF k = key THEN w ELSE rbWorkers[k]]
         /\ rbPending' = rbPending \ {key}
    /\ UNCHANGED <<rbVariant, rbList, rbSize, rbPc, rbI, rbResults, rbWrites,
                   rbGroups, rbSem, notRbVars>>

(* semaphore <- struct{}{} *)
BlobsAcquire(key) ==
    /\ rbWorkers[key].pc = "acquire"
    /\ rbSem < RbMdop
    /\ rbSem' = rbSem + 1
    /\ rbWorkers' = [rbWorkers EXCEPT ![key].pc = "read"]
    /\ UNCHANGED <<rbVariant, rbList, rbSize, rbPc, rbI, rbResults, rbWrites,
                   rbGroups, rbPending, notRbVars>>

(* p.ReadBlob of the goroutine's range. *)
BlobsRead(key) ==
    /\ rbWorkers[key].pc = "read"
    /\ \E ioOk \in BOOLEAN :
         LET w == rbWorkers[key]
             size == IF rbVariant = "x" THEN rbSize
                     ELSE (w.end - w.start + 1 + AddrMod) % AddrMod
             r == IF rbVariant = "grouped" /\ w.end < w.start
                  THEN [status |-> "internal logic error", blob |-> <<>>]
                  ELSE WinReadBlob(w.start, size, ioOk)
         IN  rbWorkers' = [rbWorkers EXCEPT ![key].pc = "write",
                                            ![key].status = r.status,
                                            ![key].blob = r.blob]
    /\ UNCHANGED <<rbVariant, rbList, rbSize, rbPc, rbI, rbResults, rbWrites,
                   rbGroups, rbPending, rbSem, notRbVars>>

(* results[req.Index] = ... for the goroutine's next request. *)
BlobsWrite(key) ==
    /\ rbWorkers[key].pc = "write"
    /\ rbWorkers[key].k <= Len(rbWorkers[key].reqs)
    /\ LET w == rbWorkers[key]
           i == w.reqs[w.k]
           rec == IF rbVariant = "x" THEN SingleOutcome(w, i, rbList)
                  ELSE GroupedOutcome(w, i, rbList, rbSize)
       IN  /\ rbResults' = RbAssign(rbResults, i, rec)
           /\ rbWrites' = RbLog(rbWrites, i, rec)
           /\ rbWorkers' = [rbWorkers EXCEPT ![key].k = w.k + 1]
    /\ UNCHANGED <<rbVariant, rbList, rbSize, rbPc, rbI, rbGroups, rbPending,
                   rbSem, notRbVars>>

(* The deferred <-semaphore and wg.Done(). *)
BlobsRelease(key) ==
    /\ rbWorkers[key].pc = "write"
    /\ rbWorkers[key].k > Len(rbWorkers[key].reqs)
    /\ rbSem' = rbSem - 1
    /\ rbWorkers' = [rbWorkers EXCEPT ![key].pc = "done"]
    /\ UNCHANGED <<rbVariant, rbList, rbSize, rbPc, rbI, rbResults, rbWrites,
                   rbGroups, rbPending, notRbVars>>

(* wg.Wait(); return results *)
BlobsWait ==
    /\ rbPc = "spawn"
    /\ rbPending = {}
    /\ \A key \in DOMAIN rbWorkers : rbWorkers[key].pc = "done"
    /\ rbPc' = "done"
    /\ UNCHANGED <<rbVariant, rbList, rbSize, rbI, rbResults, rbWrites, rbGroups,
                   rbPending, rbWorkers, rbSem, notRbVars>>

NextBlobs ==
    \/ BlobsEnter
    \/ BlobsSerial
    \/ BlobsGroup
    \/ BlobsSpawn
    \/ \E key \in DOMAIN rbWorkers :
         BlobsAcquire(key) \/ BlobsRead(key) \/ BlobsWrite(key) \/ BlobsRelease(key)
    \/ BlobsWait

SpecBlobs == InitBlobs /\ [][NextBlobs]_vars

(* C21: the slice a batch read returns has the length of list and          *)
(* results[i].Address = list[i] for every i; every record ever assigned to *)
(* slot i carries list[i], and a blob in it is based at list[i] and holds  *)
(* the size bytes the target has there.                                    *)
OwnOutcome(rec, i) ==
    /\ rec.Address = rbList[i]
    /\ rec.Blob # <<>> =>
         /\ rec.Blob[1].Base = rbList[i]
         /\ rec.Blob[1].data = RbData(rbList[i], rbSize)

C21_ReadBlobsOrdered ==
    /\ rbPc = "done" =>
         /\ Len(rbResults) = Len(rbList)
         /\ \A i \in 1 .. Len(rbList) : rbResults[i].Address = rbList[i]
    /\ \A i \in 1 .. Len(rbWrites) :
         \A n \in 1 .. Len(rbWrites[i]) : OwnOutcome(rbWrites[i][n], i)

C21_Witness ==
    /\ rbPc = "done"
    /\ rbVariant = "grouped"
    /\ Len(rbList) = RbMaxList
    /\ rbList[1] = 4 /\ rbList[2] = MaxAddr - 1 /\ rbList[Len(rbList)] = 3
    /\ \A i \in 1 .. Len(rbList) : rbResults[i].Blob # <<>>

----------------------------------------------------------------------------
(* pod.ReadStruct on a record type that points to itself:                  *)
(*   type Node struct { Val int32; Next *Node `pod:"valid_pointer"` }      *)

NdNodeCount == 3

(* The depth at which the goroutine stack is exhausted, in calls. *)
NdMaxStack == 5

(* The addresses of the Node records of the target. *)
NdNodes == { AddrLow + 2 * n - 1 : n \in 1 .. NdNodeCount }

NdMap == << MemoryMapItem(AddrLow + 1, 2 * NdNodeCount, PermsR) >>

(* The record type, by field. *)
Node == << Field("Val", "int32", <<>>, ""), Field("Next", "ptr", ndTag, "Node") >>

(* proc.IsValidAddress of the live handle. *)
NodeValid(addr) == isValidAddressInternal(addr, NdMap)

InitNode ==
    /\ ndMem \in [NdNodes -> NdNodes \cup {0, AddrLow - 1}]
    /\ ndRoot \in NdNodes
    /\ ndTag \in {TagValidPointer, TagValidPointerStrict}
    /\ ndPc = "call"
    /\ ndStack = <<>>
    /\ ndRet = ""
    /\ ndCalls = 0
    /\ NotNdIdle

(* The caller invokes ReadStruct(proc, root, &node). *)
NodeCall ==
    /\ ndPc = "call"
    /\ ndPc' = "run"
    /\ ndStack' = <<ndRoot>>
    /\ ndCalls' = 1
    /\ UNCHANGED <<ndMem, ndRoot, ndTag, ndRet, notNdVars>>

(* The innermost call, from its entry to the recursive call for Next or to *)
(* its return: proc.ReadMemory of the record, then the Next field.         *)
NodeRun ==
    /\ ndPc = "run"
    /\ ndRet = ""
    /\ Len(ndStack) > 0
    /\ \E ioOk \in BOOLEAN :
         LET addr == ndStack[Len(ndStack)]
             ptrAddr == ndMem[addr]
             next == Node[2]
         IN  IF ~ioOk
             THEN /\ ndRet' = "err"
                  /\ ndStack' = SubSeq(ndStack, 1, Len(ndStack) - 1)
                  /\ UNCHANGED <<ndPc, ndCalls>>
             ELSE IF ~TagContains(next.tag, "valid_pointer") \/ ptrAddr = 0
             THEN /\ ndRet' = "ok"
                  /\ ndStack' = SubSeq(ndStack, 1, Len(ndStack) - 1)
                  /\ UNCHANGED <<ndPc, ndCalls>>
             ELSE IF ~NodeValid(ptrAddr)
             THEN /\ ndRet' = IF TagContains(next.tag, "err_failure") THEN "err" ELSE "ok"
                  /\ ndStack' = SubSeq(ndStack, 1, Len(ndStack) - 1)
                  /\ UNCHANGED <<ndPc, ndCalls>>
             ELSE IF Len(ndStack) >= NdMaxStack
             THEN /\ ndPc' = "stack overflow"
                  /\ UNCHANGED <<ndStack, ndRet, ndCalls>>
             ELSE /\ ndStack' = Append(ndStack, ptrAddr)
                  /\ ndCalls' = ndCalls + 1
                  /\ UNCHANGED <<ndPc, ndRet>>
    /\ UNCHANGED <<ndMem, ndRoot, ndTag, notNdVars>>

(* The recursive call returned: the caller sets Next or its zero value and *)
(* returns itself, Next being the last field; the outermost call returns   *)
(* to the caller of ReadStruct.                                            *)
NodeReturn ==
    /\ ndPc = "run"
    /\ ndRet # ""
    /\ IF Len(ndStack) = 0
       THEN /\ ndPc' = "done"
            /\ UNCHANGED <<ndStack, ndRet>>
       ELSE /\ ndRet' = IF ndRet = "err" /\ TagContains(Node[2].tag, "err_failure")
                        THEN "err" ELSE "ok"
            /\ ndStack' = SubSeq(ndStack, 1, Len(ndStack) - 1)
            /\ UNCHANGED ndPc
    /\ UNCHANGED <<ndMem, ndRoot, ndTag, ndCalls, notNdVars>>

NextNode == NodeCall \/ NodeRun \/ NodeReturn

SpecNode == InitNode /\ [][NextNode]_vars

(* C28: ReadStruct makes finitely many recursive calls whatever the target *)
(* holds: no record is materialised while a call for the same address is   *)
(* still in progress, so the calls in progress never outnumber the records *)
(* and the goroutine stack is never exhausted.                             *)
C28_ReadStructTerminates ==
    /\ ndPc # "stack overflow"
    /\ \A m, n \in 1 .. Len(ndStack) : ndStack[m] = ndStack[n] => m = n

====
